---- MODULE Spec2Model ----
(***************************************************************************)
(* A model of the kalpler card-game server: the shared card primitives,    *)
(* the Hearts, King and Spades engines, and the table controller           *)
(* (registry, seats, timers, delayed broadcasts).                          *)
(*                                                                         *)
(* Scaling.  The engines are modelled on a deck of four suits with the     *)
(* ranks of RANKS only, so a hand holds Len(RANKS) cards and a round has   *)
(* Len(RANKS) tricks.  The numbers the source writes for the full deck     *)
(* (52 cards, 13 tricks, 26 points) are the derived DeckSize,              *)
(* TricksPerRound and MoonPoints here.                                     *)
(***************************************************************************)
EXTENDS Integers, Sequences, FiniteSets, TLC

VARIABLES
    game,          \* the engine of the table: a HeartsGame, KingGame or SpadesGame
    trickLog,      \* the winners of the tricks completed since the last deal
    timers,        \* the table's pending setTimeout callbacks, in arming order
    rematchVotes,  \* table.rematchVotes
    tables,        \* the registry: tableId -> Table
    sockets,       \* per connection: currentTableId, isSpectating, connected
    cleanups,      \* the pending 60 s callbacks, in arming order
    destroyed      \* the tables the last deleting callback removed

engineVars == <<game, trickLog>>
tableVars == <<timers, rematchVotes>>
lobbyVars == <<tables, sockets, cleanups, destroyed>>
vars == <<game, trickLog, timers, rematchVotes, tables, sockets, cleanups, destroyed>>

\* ------------------------------------------------------------ bounds
\* games of a King party (rounds of a Hearts game) that are run
MaxGames == 3
\* callbacks a table may have pending at once
MaxPending == 3
\* how many of the deck's permutations shuffleDeck draws from
NumShuffles == 2
\* the rounds a Hearts table deals
MaxRounds == 2
\* games of the King party in which the selectors' quotas are counted
QuotaGames == 17
\* connections, seats of a table in the registry (4 in the source), table ids,
\* pending cleanup callbacks
NumSockets == 2
TableSeats == 2
NumTableIds == 2
MaxCleanups == 3
\* the numbers generateTableId appends to a word (100 in the source)
NumSuffixes == 2
\* the tables the registry holds at once when the clients send any event
MaxTables == 1
\* the tables the registry holds at once when the clients only create tables
MaxRegistered == 2

\* ------------------------------------------------------- JS helpers
Seats == 0 .. 3
NULL == "null"
UNDEFINED == "undefined"

Min(a, b) == IF a <= b THEN a ELSE b
Max(a, b) == IF a >= b THEN a ELSE b

RECURSIVE SeqSum(_)
SeqSum(s) == IF s = <<>> THEN 0 ELSE Head(s) + SeqSum(Tail(s))

SeqToSet(s) == {s[i] : i \in 1 .. Len(s)}

\* arr.some(x => x = v)
Includes(s, v) == \E i \in 1 .. Len(s) : s[i] = v

\* ------------------------------------------------- shared/cards.js
SUITS == <<"hearts", "diamonds", "clubs", "spades">>
RANKS == <<"2", "Q", "K">>
RANK_VALUES == [r \in {"2", "3", "4", "5", "6", "7", "8", "9", "10", "J", "Q", "K", "A"} |->
    CASE r = "2" -> 2 [] r = "3" -> 3 [] r = "4" -> 4 [] r = "5" -> 5
      [] r = "6" -> 6 [] r = "7" -> 7 [] r = "8" -> 8 [] r = "9" -> 9
      [] r = "10" -> 10 [] r = "J" -> 11 [] r = "Q" -> 12 [] r = "K" -> 13
      [] r = "A" -> 14]

TricksPerRound == Len(RANKS)
DeckSize == Len(SUITS) * Len(RANKS)

Card(s, r) == [suit |-> s, rank |-> r]

createDeck == [i \in 1 .. DeckSize |->
    Card(SUITS[((i - 1) \div Len(RANKS)) + 1], RANKS[((i - 1) % Len(RANKS)) + 1])]

AllCards == SeqToSet(createDeck)

\* a comparison that forgets the suit
cardEqualsByRank(a, b) == a.rank = b.rank

cardEquals(a, b) == a.suit = b.suit /\ a.rank = b.rank

\* The permutations shuffleDeck may return that the model explores: shuffle k
\* reads the deck at stride Strides[k] from offset k (a stride coprime to
\* DeckSize is a permutation).
Strides == <<1, 5, 7, 11>>
ShuffleIds == 0 .. (NumShuffles - 1)
shuffleDeck(deck, k) == [i \in 1 .. Len(deck) |->
    deck[(((i - 1) * Strides[(k % Len(Strides)) + 1] + k) % Len(deck)) + 1]]

suitOrder == [s \in {"clubs", "diamonds", "spades", "hearts"} |->
    CASE s = "clubs" -> 0 [] s = "diamonds" -> 1 [] s = "spades" -> 2 [] s = "hearts" -> 3]

\* the comparator of sortHand: negative when a sorts before b
sortCompare(a, b) ==
    IF suitOrder[a.suit] # suitOrder[b.suit]
    THEN suitOrder[a.suit] - suitOrder[b.suit]
    ELSE RANK_VALUES[a.rank] - RANK_VALUES[b.rank]

\* stable insertion of c into the sorted sequence s
RECURSIVE InsertSorted(_, _)
InsertSorted(s, c) ==
    IF s = <<>> THEN <<c>>
    ELSE IF sortCompare(c, Head(s)) < 0 THEN <<c>> \o s
    ELSE <<Head(s)>> \o InsertSorted(Tail(s), c)

RECURSIVE sortHand(_)
sortHand(hand) ==
    IF hand = <<>> THEN <<>>
    ELSE InsertSorted(sortHand(SubSeq(hand, 1, Len(hand) - 1)), hand[Len(hand)])

getCardsOfSuit(hand, suit) == SelectSeq(hand, LAMBDA c : c.suit = suit)

removeCard(hand, card) == SelectSeq(hand, LAMBDA c : ~cardEquals(c, card))

\* hands[i % 4].push(deck[i]) for i in 0 .. 51, then each hand sorted
dealHands(deck) == [s \in Seats |->
    sortHand([j \in 1 .. (Len(deck) \div 4) |-> deck[4 * (j - 1) + s + 1]])]

RECURSIVE trickWinnerFrom(_, _, _)
trickWinnerFrom(trick, ledSuit, winningPlay) ==
    IF trick = <<>> THEN winningPlay
    ELSE LET play == Head(trick) IN
         trickWinnerFrom(Tail(trick), ledSuit,
            IF play.card.suit = ledSuit
               /\ RANK_VALUES[play.card.rank] > RANK_VALUES[winningPlay.card.rank]
            THEN play ELSE winningPlay)

determineTrickWinner(trick) ==
    trickWinnerFrom(trick, trick[1].card.suit, trick[1]).seat

RECURSIVE trumpWinnerFrom(_, _, _, _)
trumpWinnerFrom(trick, ledSuit, trumpSuit, winningPlay) ==
    IF trick = <<>> THEN winningPlay
    ELSE LET play == Head(trick)
             playHasTrump == play.card.suit = trumpSuit
             winnerHasTrump == winningPlay.card.suit = trumpSuit
             next ==
                IF playHasTrump /\ ~winnerHasTrump THEN play
                ELSE IF playHasTrump /\ winnerHasTrump
                THEN IF RANK_VALUES[play.card.rank] > RANK_VALUES[winningPlay.card.rank]
                     THEN play ELSE winningPlay
                ELSE IF ~playHasTrump /\ ~winnerHasTrump
                THEN IF play.card.suit = ledSuit
                        /\ RANK_VALUES[play.card.rank] > RANK_VALUES[winningPlay.card.rank]
                     THEN play ELSE winningPlay
                ELSE winningPlay
         IN trumpWinnerFrom(Tail(trick), ledSuit, trumpSuit, next)

determineTrickWinnerWithTrump(trick, trumpSuit) ==
    trumpWinnerFrom(Tail(trick), trick[1].card.suit, trumpSuit, trick[1]).seat

\* ---------------------------------------------- games/HeartsGame.js
\* the points of a whole round (13 hearts and the queen of spades: 26)
MoonPoints == Len(RANKS) + 13

getPassDirection(roundNumber) ==
    <<"left", "right", "across", "hold">>[((roundNumber - 1) % 4) + 1]

\* getReceiverIndex that passes to the left whatever the direction
getReceiverIndexLeft(giverIndex, direction) == (giverIndex + 1) % 4

getReceiverIndex(giverIndex, direction) ==
    CASE direction = "left" -> (giverIndex + 1) % 4
      [] direction = "right" -> (giverIndex + 3) % 4
      [] direction = "across" -> (giverIndex + 2) % 4
      [] OTHER -> giverIndex

EmptyHands == [s \in Seats |-> <<>>]
\* this.passes = {}: an object with no keys
NoPasses == <<>>
ZeroScores == [s \in Seats |-> 0]

NewHeartsGame(endingScore) ==
    [ gameType |-> "hearts",
      hands |-> EmptyHands,
      roundNumber |-> 1,
      phase |-> "dealing",
      passDirection |-> NULL,
      passes |-> NoPasses,
      currentTrick |-> <<>>,
      currentPlayer |-> 0,
      heartsBroken |-> FALSE,
      tricksTaken |-> EmptyHands,
      roundScores |-> ZeroScores,
      cumulativeScores |-> ZeroScores,
      lastTrick |-> NULL,
      tricksPlayed |-> 0,
      endingScore |-> endingScore ]

isTwoOfClubs(c) == c.suit = "clubs" /\ c.rank = "2"
isQueenOfSpades(c) == c.suit = "spades" /\ c.rank = "Q"

findTwoOfClubsPlayer(hands) ==
    IF \E i \in Seats : \E n \in 1 .. Len(hands[i]) : isTwoOfClubs(hands[i][n])
    THEN CHOOSE i \in Seats :
            /\ \E n \in 1 .. Len(hands[i]) : isTwoOfClubs(hands[i][n])
            /\ \A j \in 0 .. (i - 1) : \A n \in 1 .. Len(hands[j]) : ~isTwoOfClubs(hands[j][n])
    ELSE 0

\* deal(), with deck the cards createDeck() made and k the permutation
\* shuffleDeck drew
HeartsDealOf(g, deck, k) ==
    LET hands == dealHands(shuffleDeck(deck, k))
        direction == getPassDirection(g.roundNumber)
        phase == IF direction = "hold" THEN "playing" ELSE "passing"
    IN [g EXCEPT
          !.hands = hands,
          !.passDirection = direction,
          !.phase = phase,
          !.passes = NoPasses,
          !.currentTrick = <<>>,
          !.heartsBroken = FALSE,
          !.tricksTaken = EmptyHands,
          !.roundScores = ZeroScores,
          !.lastTrick = NULL,
          !.tricksPlayed = 0,
          !.currentPlayer = IF phase = "playing" THEN findTwoOfClubsPlayer(hands) ELSE @]

HeartsDeal(g, k) == HeartsDealOf(g, createDeck, k)

\* Object.keys(this.passes).length
PassCount(passes) == Cardinality(DOMAIN passes)

\* obj[key] = value on an object modelled as a function over its keys
SetKey(obj, key, value) ==
    [k \in (DOMAIN obj) \cup {key} |-> IF k = key THEN value ELSE obj[k]]

executeCardExchange(g) ==
    LET direction == g.passDirection
        giverOf(r) == CHOOSE i \in Seats :
            /\ getReceiverIndex(i, direction) = r
            /\ \A j \in (i + 1) .. 3 : getReceiverIndex(j, direction) # r
        receivedCards == [r \in Seats |->
            IF \E i \in Seats : getReceiverIndex(i, direction) = r
            THEN g.passes[giverOf(r)] ELSE <<>>]
        hands == [i \in Seats |->
            sortHand(SelectSeq(g.hands[i], LAMBDA c : ~Includes(g.passes[i], c))
                     \o receivedCards[i])]
    IN [ game |-> [g EXCEPT !.hands = hands,
                            !.phase = "playing",
                            !.currentPlayer = findTwoOfClubsPlayer(hands),
                            !.passes = NoPasses],
         exchangeInfo |-> [passedCards |-> g.passes, receivedCards |-> receivedCards] ]

Fail(g, error) == [game |-> g, result |-> [success |-> FALSE, error |-> error]]

\* a call that throws a TypeError: nothing is returned and what was assigned
\* before the throw stays
Throw(g) == [game |-> g, result |-> [success |-> FALSE, error |-> "TypeError", threw |-> TRUE]]
Threw(r) == "threw" \in DOMAIN r.result

\* the card of a payload without one: undefined
UndefinedCard == [suit |-> UNDEFINED, rank |-> UNDEFINED]

HeartsSubmitPass(g, playerIndex, cards) ==
    IF g.phase # "passing" THEN Fail(g, "Not in passing phase")
    ELSE IF Len(cards) # 3 THEN Fail(g, "Must pass exactly 3 cards")
    ELSE IF \E n \in 1 .. Len(cards) : ~Includes(g.hands[playerIndex], cards[n])
    THEN Fail(g, "Card not in hand")
    ELSE LET g1 == [g EXCEPT !.passes = SetKey(@, playerIndex, cards)] IN
         IF PassCount(g1.passes) = 4
         THEN LET x == executeCardExchange(g1) IN
              [game |-> x.game,
               result |-> [success |-> TRUE, allPassed |-> TRUE,
                           exchangeInfo |-> x.exchangeInfo]]
         ELSE [game |-> g1, result |-> [success |-> TRUE, allPassed |-> FALSE]]

\* getLegalCards that knows following suit only
HeartsGetLegalCardsFollowOnly(g, playerIndex) ==
    LET hand == g.hands[playerIndex] IN
    IF Len(g.currentTrick) = 0 THEN hand
    ELSE IF Len(getCardsOfSuit(hand, g.currentTrick[1].card.suit)) > 0
    THEN getCardsOfSuit(hand, g.currentTrick[1].card.suit)
    ELSE hand

HeartsGetLegalCards(g, playerIndex) ==
    LET hand == g.hands[playerIndex]
        isLeading == Len(g.currentTrick) = 0
        isFirstTrick == g.tricksPlayed = 0 /\ Len(g.currentTrick) = 0
        nonHearts == SelectSeq(hand, LAMBDA c : c.suit # "hearts")
        sameSuit == getCardsOfSuit(hand, g.currentTrick[1].card.suit)
        safe == SelectSeq(hand, LAMBDA c : c.suit # "hearts" /\ ~isQueenOfSpades(c))
    IN IF isFirstTrick /\ isLeading THEN SelectSeq(hand, isTwoOfClubs)
       ELSE IF isLeading
       THEN IF ~g.heartsBroken /\ Len(nonHearts) > 0 THEN nonHearts ELSE hand
       ELSE IF Len(sameSuit) > 0 THEN sameSuit
       ELSE IF g.tricksPlayed = 0 /\ Len(safe) > 0 THEN safe
       ELSE hand

trickPoints(trick) ==
    SeqSum([n \in 1 .. Len(trick) |->
        (IF trick[n].card.suit = "hearts" THEN 1 ELSE 0)
        + (IF isQueenOfSpades(trick[n].card) THEN 13 ELSE 0)])

SetMin(S) == CHOOSE x \in S : \A y \in S : x <= y
SetMax(S) == CHOOSE x \in S : \A y \in S : x >= y
\* arr.indexOf(v) / arr.findIndex over the four seats
FirstSeat(P(_)) == IF \E i \in Seats : P(i)
                   THEN CHOOSE i \in Seats : P(i) /\ \A j \in 0 .. (i - 1) : ~P(j)
                   ELSE -1

\* the comparison with < in place of <=
ShooterWouldWinStrictly(shooterHypotheticalScore, othersMinScore) ==
    shooterHypotheticalScore < othersMinScore

\* shooterHypotheticalScore <= othersMinScore
ShooterWouldWin(shooterHypotheticalScore, othersMinScore) ==
    shooterHypotheticalScore <= othersMinScore

HeartsCompleteRound(g, lastTrickWinner) ==
    LET moonShooter == FirstSeat(LAMBDA i : g.roundScores[i] = MoonPoints)
        hypotheticalScores == [i \in Seats |->
            IF i = moonShooter THEN g.cumulativeScores[i]
            ELSE g.cumulativeScores[i] + MoonPoints]
        othersMinScore == SetMin({hypotheticalScores[i] : i \in Seats \ {moonShooter}})
        shooterWouldWin == ShooterWouldWin(hypotheticalScores[moonShooter], othersMinScore)
        moonShotType == IF moonShooter = -1 THEN NULL
                        ELSE IF shooterWouldWin THEN "gave" ELSE "took"
        roundScores ==
            IF moonShooter = -1 THEN g.roundScores
            ELSE IF shooterWouldWin
            THEN [i \in Seats |-> IF i = moonShooter THEN 0 ELSE MoonPoints]
            ELSE [i \in Seats |-> IF i = moonShooter THEN MoonPoints ELSE 0]
        cumulativeScores == [i \in Seats |-> g.cumulativeScores[i] + roundScores[i]]
        maxScore == SetMax({cumulativeScores[i] : i \in Seats})
        gameOver == maxScore >= g.endingScore
        minScore == SetMin({cumulativeScores[i] : i \in Seats})
        winner == IF gameOver THEN FirstSeat(LAMBDA i : cumulativeScores[i] = minScore)
                  ELSE NULL
    IN [ game |-> [g EXCEPT !.roundScores = roundScores,
                            !.cumulativeScores = cumulativeScores,
                            !.currentTrick = <<>>,
                            !.phase = "roundEnd"],
         result |-> [ success |-> TRUE, trickComplete |-> TRUE,
                      winner |-> lastTrickWinner,
                      points |-> roundScores[lastTrickWinner],
                      roundComplete |-> TRUE,
                      roundScores |-> roundScores,
                      cumulativeScores |-> cumulativeScores,
                      moonShooter |-> IF moonShooter # -1 THEN moonShooter ELSE NULL,
                      moonShotType |-> moonShotType,
                      gameOver |-> gameOver,
                      gameWinner |-> winner,
                      trick |-> g.lastTrick ] ]

HeartsCompleteTrick(g) ==
    LET winner == determineTrickWinner(g.currentTrick)
        points == trickPoints(g.currentTrick)
        g1 == [g EXCEPT !.roundScores[winner] = @ + points,
                        !.tricksTaken[winner] = Append(@, g.currentTrick),
                        !.lastTrick = g.currentTrick,
                        !.tricksPlayed = @ + 1]
    IN IF g1.tricksPlayed = TricksPerRound THEN HeartsCompleteRound(g1, winner)
       ELSE [ game |-> [g1 EXCEPT !.currentTrick = <<>>, !.currentPlayer = winner],
              result |-> [ success |-> TRUE, trickComplete |-> TRUE, winner |-> winner,
                           points |-> points, roundComplete |-> FALSE,
                           trick |-> g1.lastTrick ] ]

\* the card taken out of the hand before the turn and the card are checked
HeartsPlayCardTakeFirst(g, playerIndex, card) ==
    IF g.phase # "playing" THEN Fail(g, "Not in playing phase")
    ELSE LET taken == [g EXCEPT !.hands[playerIndex] = removeCard(@, card)] IN
    IF playerIndex # g.currentPlayer THEN Fail(taken, "Not your turn")
    ELSE IF card = UndefinedCard /\ Len(HeartsGetLegalCards(g, playerIndex)) > 0
    THEN Throw(g)
    ELSE IF ~\E n \in 1 .. Len(HeartsGetLegalCards(g, playerIndex)) :
                cardEquals(HeartsGetLegalCards(g, playerIndex)[n], card)
    THEN Fail(taken, "Illegal card play")
    ELSE LET g1 == [taken EXCEPT
                      !.currentTrick = Append(@, [seat |-> playerIndex, card |-> card]),
                      !.heartsBroken = IF card.suit = "hearts" THEN TRUE ELSE @]
         IN IF Len(g1.currentTrick) = 4 THEN HeartsCompleteTrick(g1)
            ELSE [ game |-> [g1 EXCEPT !.currentPlayer = (g.currentPlayer + 1) % 4],
                   result |-> [success |-> TRUE, trickComplete |-> FALSE] ]

HeartsPlayCard(g, playerIndex, card) ==
    IF g.phase # "playing" THEN Fail(g, "Not in playing phase")
    ELSE IF playerIndex # g.currentPlayer THEN Fail(g, "Not your turn")
    \* cardEquals(c, undefined) reads undefined.suit as soon as there is a c
    ELSE IF card = UndefinedCard /\ Len(HeartsGetLegalCards(g, playerIndex)) > 0
    THEN Throw(g)
    ELSE IF ~\E n \in 1 .. Len(HeartsGetLegalCards(g, playerIndex)) :
                cardEquals(HeartsGetLegalCards(g, playerIndex)[n], card)
    THEN Fail(g, "Illegal card play")
    ELSE LET g1 == [g EXCEPT
                      !.hands[playerIndex] = removeCard(@, card),
                      !.currentTrick = Append(@, [seat |-> playerIndex, card |-> card]),
                      !.heartsBroken = IF card.suit = "hearts" THEN TRUE ELSE @]
         IN IF Len(g1.currentTrick) = 4 THEN HeartsCompleteTrick(g1)
            ELSE [ game |-> [g1 EXCEPT !.currentPlayer = (g.currentPlayer + 1) % 4],
                   result |-> [success |-> TRUE, trickComplete |-> FALSE] ]

HeartsStartNextRound(g, k) == HeartsDeal([g EXCEPT !.roundNumber = @ + 1], k)


\* ------------------------------------------------ games/KingGame.js
\* a party is 20 games
PartyGames == 20
PenaltyQuota == 3
TrumpQuota == 2
GlobalCap == 2
PENALTY_CONTRACTS == [EL_ALMAZ |-> "el", KUPA_ALMAZ |-> "kupa", ERKEK_ALMAZ |-> "erkek",
                      KIZ_ALMAZ |-> "kiz", RIFKI |-> "rifki", SON_IKI |-> "sonIki"]
PenaltyNames == <<"el", "kupa", "erkek", "kiz", "rifki", "sonIki">>
TrumpSuits == <<"spades", "hearts", "diamonds", "clubs">>
PENALTY_VALUES == [el |-> 50, kupa |-> 30, erkek |-> 60, kiz |-> 100, rifki |-> 320,
                   sonIki |-> 180]
TRUMP_VALUES == [perTrick |-> 50]

\* A number slot that holds no number: undefined, or the NaN that undefined++
\* leaves.  Every comparison with it is false and incrementing it gives it again.
NaN == 0 - 1
NoSeat == 0 - 1
JsGE(v, n) == v # NaN /\ v >= n
JsInc(v) == IF v = NaN THEN NaN ELSE v + 1
GetNum(obj, key) == IF key \in DOMAIN obj THEN obj[key] ELSE NaN

\* String.prototype.toLowerCase / toUpperCase on the names the model sends
toLowerCase(str) ==
    CASE str = "sonIki" -> "soniki"
      [] str = "RIFKI" -> "rifki"
      [] str = "EL_ALMAZ" -> "el_almaz"
      [] OTHER -> str
toUpperCase(str) ==
    CASE str = "el" -> "EL" [] str = "kupa" -> "KUPA" [] str = "erkek" -> "ERKEK"
      [] str = "kiz" -> "KIZ" [] str = "rifki" -> "RIFKI" [] str = "sonIki" -> "SONIKI"
      [] str = "bogus" -> "BOGUS"
      [] OTHER -> str

NoContract == [type |-> NULL, name |-> UNDEFINED, trumpSuit |-> UNDEFINED]

NewKingGame(initialSelectorSeat) ==
    [ gameType |-> "king",
      hands |-> EmptyHands,
      gameNumber |-> 1,
      phase |-> "dealing",
      selectorSeat |-> initialSelectorSeat,
      contract |-> NoContract,
      currentTrick |-> <<>>,
      currentPlayer |-> 0,
      tricksPlayed |-> 0,
      tricksTaken |-> EmptyHands,
      lastTrick |-> NULL,
      heartsBroken |-> FALSE,
      trumpBroken |-> FALSE,
      gameScores |-> ZeroScores,
      cumulativeScores |-> ZeroScores,
      contractsUsed |-> [s \in Seats |-> [penalties |-> 0, trumps |-> 0]],
      globalContractUsage |->
          [k \in {"el", "kupa", "erkek", "kiz", "rifki", "sonIki", "trump_spades",
                  "trump_hearts", "trump_diamonds", "trump_clubs"} |-> 0],
      contractHistory |-> <<>>,
      trick12Winner |-> NoSeat,
      trick13Winner |-> NoSeat ]

KingDeal(g, k) ==
    [g EXCEPT
       !.hands = dealHands(shuffleDeck(createDeck, k)),
       !.phase = "selecting",
       !.contract = NoContract,
       !.currentTrick = <<>>,
       !.heartsBroken = FALSE,
       !.trumpBroken = FALSE,
       !.tricksTaken = EmptyHands,
       !.gameScores = ZeroScores,
       !.lastTrick = NULL,
       !.tricksPlayed = 0]

trumpKey(trumpSuit) ==
    CASE trumpSuit = "spades" -> "trump_spades"
      [] trumpSuit = "hearts" -> "trump_hearts"
      [] trumpSuit = "diamonds" -> "trump_diamonds"
      [] trumpSuit = "clubs" -> "trump_clubs"
      [] OTHER -> "trump_undefined"

\* canSelectContract without the selector's quotas
canSelectContractUnlimited(g, playerSeat, contractType, contractName, trumpSuit) ==
    IF playerSeat # g.selectorSeat THEN "Not your turn to select"
    ELSE IF g.phase # "selecting" THEN "Not in selection phase"
    ELSE IF contractType = "penalty"
    THEN IF contractName = UNDEFINED THEN "throw"
         ELSE IF toUpperCase(contractName) \notin DOMAIN PENALTY_CONTRACTS
                 /\ ~Includes(PenaltyNames, contractName)
         THEN "Invalid penalty contract"
         ELSE IF JsGE(GetNum(g.globalContractUsage, toLowerCase(contractName)), GlobalCap)
         THEN "This contract has been used twice already"
         ELSE "ok"
    ELSE IF contractType = "trump"
    THEN IF ~Includes(TrumpSuits, trumpSuit) THEN "Invalid trump suit"
         ELSE IF JsGE(GetNum(g.globalContractUsage, trumpKey(trumpSuit)), GlobalCap)
         THEN "This trump suit has been used twice already"
         ELSE "ok"
    ELSE "Invalid contract type"

\* canSelectContract with a cap of one game on every contract
canSelectContractOnce(g, playerSeat, contractType, contractName, trumpSuit) ==
    LET usage == g.contractsUsed[playerSeat] IN
    IF playerSeat # g.selectorSeat THEN "Not your turn to select"
    ELSE IF g.phase # "selecting" THEN "Not in selection phase"
    ELSE IF contractType = "penalty"
    THEN IF usage.penalties >= PenaltyQuota THEN "No penalty selections remaining"
         ELSE IF JsGE(GetNum(g.globalContractUsage, toLowerCase(contractName)), 1)
         THEN "This contract has been used twice already"
         ELSE "ok"
    ELSE IF usage.trumps >= TrumpQuota THEN "No trump selections remaining"
         ELSE IF JsGE(GetNum(g.globalContractUsage, trumpKey(trumpSuit)), 1)
         THEN "This trump suit has been used twice already"
         ELSE "ok"

\* canSelectContract that takes every seat for the selector
canSelectContractAnySeat(g, playerSeat, contractType, contractName, trumpSuit) ==
    canSelectContractUnlimited(g, g.selectorSeat, contractType, contractName, trumpSuit)

\* canSelectContract: "ok", "throw" (contractName.toUpperCase() of undefined),
\* or the error text
canSelectContract(g, playerSeat, contractType, contractName, trumpSuit) ==
    LET usage == g.contractsUsed[playerSeat] IN
    IF playerSeat # g.selectorSeat THEN "Not your turn to select"
    ELSE IF g.phase # "selecting" THEN "Not in selection phase"
    ELSE IF contractType = "penalty"
    THEN IF usage.penalties >= PenaltyQuota THEN "No penalty selections remaining"
         ELSE IF contractName = UNDEFINED THEN "throw"
         ELSE IF toUpperCase(contractName) \notin DOMAIN PENALTY_CONTRACTS
                 /\ ~Includes(PenaltyNames, contractName)
         THEN "Invalid penalty contract"
         ELSE IF JsGE(GetNum(g.globalContractUsage, toLowerCase(contractName)), GlobalCap)
         THEN "This contract has been used twice already"
         ELSE "ok"
    ELSE IF contractType = "trump"
    THEN IF usage.trumps >= TrumpQuota THEN "No trump selections remaining"
         ELSE IF ~Includes(TrumpSuits, trumpSuit) THEN "Invalid trump suit"
         ELSE IF JsGE(GetNum(g.globalContractUsage, trumpKey(trumpSuit)), GlobalCap)
         THEN "This trump suit has been used twice already"
         ELSE "ok"
    ELSE "Invalid contract type"

KingSelectContract(g, playerSeat, contractType, contractName, trumpSuit) ==
    LET validation == canSelectContract(g, playerSeat, contractType, contractName, trumpSuit)
        normalizedName == IF contractName = UNDEFINED THEN UNDEFINED
                          ELSE toLowerCase(contractName)
        contract == IF contractType = "penalty"
                    THEN [type |-> "penalty", name |-> normalizedName, trumpSuit |-> UNDEFINED]
                    ELSE [type |-> "trump", name |-> UNDEFINED, trumpSuit |-> trumpSuit]
        key == IF contractType = "penalty" THEN normalizedName ELSE trumpKey(trumpSuit)
    IN IF validation = "throw"
       THEN Throw(g)
       ELSE IF validation # "ok" THEN Fail(g, validation)
       ELSE [ game |-> [g EXCEPT
                  !.contract = contract,
                  !.contractsUsed[playerSeat] =
                      IF contractType = "penalty"
                      THEN [@ EXCEPT !.penalties = @ + 1]
                      ELSE [@ EXCEPT !.trumps = @ + 1],
                  !.globalContractUsage =
                      SetKey(@, key, JsInc(GetNum(g.globalContractUsage, key))),
                  !.contractHistory = Append(@, [gameNumber |-> g.gameNumber,
                                                 selector |-> playerSeat,
                                                 contract |-> contract]),
                  !.phase = "playing",
                  !.currentPlayer = playerSeat],
              result |-> [success |-> TRUE, contract |-> contract,
                          startingPlayer |-> playerSeat] ]

getLegalCardsForTrump(g, hand, isLeading, ledSuit) ==
    LET nonTrump == SelectSeq(hand, LAMBDA c : c.suit # g.contract.trumpSuit)
        sameSuit == getCardsOfSuit(hand, ledSuit)
    IN IF isLeading
       THEN IF ~g.trumpBroken /\ Len(nonTrump) > 0 THEN nonTrump ELSE hand
       ELSE IF Len(sameSuit) > 0 THEN sameSuit
       ELSE hand

highestOnTable(g, ledSuit) ==
    SetMax({RANK_VALUES[g.currentTrick[n].card.rank] :
              n \in {m \in 1 .. Len(g.currentTrick) : g.currentTrick[m].card.suit = ledSuit}})

applyPenaltyConstraints(g, sameSuitCards, contractName, ledSuit) ==
    LET erkekMust == SelectSeq(sameSuitCards, LAMBDA c :
            (c.rank = "K" \/ c.rank = "J") /\ RANK_VALUES[c.rank] < highestOnTable(g, ledSuit))
        kizMust == SelectSeq(sameSuitCards, LAMBDA c :
            c.rank = "Q" /\ RANK_VALUES[c.rank] < highestOnTable(g, ledSuit))
    IN IF contractName = "erkek" /\ Len(erkekMust) > 0 THEN erkekMust
       ELSE IF contractName = "kiz" /\ Len(kizMust) > 0 THEN kizMust
       ELSE sameSuitCards

\* getPenaltyDiscards that lets a void seat play any card
getPenaltyDiscardsAny(hand, contractName) == hand

getPenaltyDiscards(hand, contractName) ==
    LET erkekCards == SelectSeq(hand, LAMBDA c : c.rank = "K" \/ c.rank = "J")
        queens == SelectSeq(hand, LAMBDA c : c.rank = "Q")
        kingOfHearts == SelectSeq(hand, LAMBDA c : c.suit = "hearts" /\ c.rank = "K")
        hearts == getCardsOfSuit(hand, "hearts")
    IN IF contractName = "erkek" /\ Len(erkekCards) > 0 THEN erkekCards
       ELSE IF contractName = "kiz" /\ Len(queens) > 0 THEN queens
       ELSE IF contractName = "rifki" /\ Len(kingOfHearts) > 0 THEN <<kingOfHearts[1]>>
       ELSE IF contractName = "rifki" /\ Len(hearts) > 0 THEN hearts
       ELSE IF contractName = "kupa" /\ Len(hearts) > 0 THEN hearts
       ELSE hand

getLegalCardsForPenalty(g, hand, isLeading, ledSuit) ==
    LET contractName == g.contract.name
        nonHearts == SelectSeq(hand, LAMBDA c : c.suit # "hearts")
        sameSuit == getCardsOfSuit(hand, ledSuit)
    IN IF isLeading /\ (contractName = "kupa" \/ contractName = "rifki")
       THEN IF ~g.heartsBroken /\ Len(nonHearts) > 0 THEN nonHearts ELSE hand
       ELSE IF isLeading THEN hand
       ELSE IF Len(sameSuit) > 0
       THEN applyPenaltyConstraints(g, sameSuit, contractName, ledSuit)
       ELSE getPenaltyDiscards(hand, contractName)

KingGetLegalCards(g, playerIndex) ==
    LET hand == g.hands[playerIndex]
        isLeading == Len(g.currentTrick) = 0
        ledSuit == IF isLeading THEN UNDEFINED ELSE g.currentTrick[1].card.suit
    IN IF g.contract.type = "trump"
       THEN getLegalCardsForTrump(g, hand, isLeading, ledSuit)
       ELSE getLegalCardsForPenalty(g, hand, isLeading, ledSuit)

\* how many of the cards of the tricks a seat took satisfy P
CapturedCount(tricks, P(_)) ==
    SeqSum([t \in 1 .. Len(tricks) |->
        Cardinality({n \in 1 .. Len(tricks[t]) : P(tricks[t][n].card)})])

calculateSonIkiScores(g) ==
    [i \in Seats |->
        0 - (IF g.trick12Winner = i THEN PENALTY_VALUES.sonIki ELSE 0)
          - (IF g.trick13Winner = i THEN PENALTY_VALUES.sonIki ELSE 0)]

\* calculateGameScores that counts the tricks under every contract
calculateGameScoresByTricks(g) ==
    [i \in Seats |-> IF g.contract.type = "trump"
                     THEN Len(g.tricksTaken[i]) * TRUMP_VALUES.perTrick
                     ELSE 0 - Len(g.tricksTaken[i]) * PENALTY_VALUES.el]

calculateGameScores(g) ==
    LET contractName == g.contract.name IN
    IF g.contract.type = "trump"
    THEN [i \in Seats |-> Len(g.tricksTaken[i]) * TRUMP_VALUES.perTrick]
    ELSE CASE contractName = "el" ->
                [i \in Seats |-> 0 - Len(g.tricksTaken[i]) * PENALTY_VALUES.el]
           [] contractName = "kupa" ->
                [i \in Seats |-> 0 - CapturedCount(g.tricksTaken[i],
                    LAMBDA c : c.suit = "hearts") * PENALTY_VALUES.kupa]
           [] contractName = "erkek" ->
                [i \in Seats |-> 0 - CapturedCount(g.tricksTaken[i],
                    LAMBDA c : c.rank = "K" \/ c.rank = "J") * PENALTY_VALUES.erkek]
           [] contractName = "kiz" ->
                [i \in Seats |-> 0 - CapturedCount(g.tricksTaken[i],
                    LAMBDA c : c.rank = "Q") * PENALTY_VALUES.kiz]
           [] contractName = "rifki" ->
                [i \in Seats |->
                    IF CapturedCount(g.tricksTaken[i],
                          LAMBDA c : c.suit = "hearts" /\ c.rank = "K") > 0
                    THEN 0 - PENALTY_VALUES.rifki ELSE 0]
           [] contractName = "sonIki" -> calculateSonIkiScores(g)
           [] OTHER -> g.gameScores

determineWinners(cumulativeScores) == {i \in Seats : cumulativeScores[i] >= 0}

KingCompleteGame(g, lastTrickWinner) ==
    LET gameScores == calculateGameScores(g)
        cumulativeScores == [i \in Seats |-> g.cumulativeScores[i] + gameScores[i]]
        partyOver == g.gameNumber >= PartyGames
    IN [ game |-> [g EXCEPT !.gameScores = gameScores,
                            !.cumulativeScores = cumulativeScores,
                            !.hands = EmptyHands,
                            !.currentTrick = <<>>,
                            !.phase = "gameEnd"],
         result |-> [ success |-> TRUE, trickComplete |-> TRUE, winner |-> lastTrickWinner,
                      gameComplete |-> TRUE, gameScores |-> gameScores,
                      cumulativeScores |-> cumulativeScores, partyOver |-> partyOver,
                      trick |-> g.lastTrick ] ]

\* checkEarlyGameEnd that knows the king of hearts only
checkEarlyGameEndRifkiOnly(g, lastTrickCards) ==
    /\ g.contract.name = "rifki"
    /\ \E n \in 1 .. Len(lastTrickCards) :
          lastTrickCards[n].suit = "hearts" /\ lastTrickCards[n].rank = "K"

checkEarlyGameEnd(g, lastTrickCards) ==
    LET contractName == g.contract.name
        remaining(P(_)) == \E i \in Seats : \E n \in 1 .. Len(g.hands[i]) : P(g.hands[i][n])
    IN \/ /\ contractName = "rifki"
          /\ \E n \in 1 .. Len(lastTrickCards) :
                lastTrickCards[n].suit = "hearts" /\ lastTrickCards[n].rank = "K"
       \/ contractName = "kupa" /\ ~remaining(LAMBDA c : c.suit = "hearts")
       \/ contractName = "erkek" /\ ~remaining(LAMBDA c : c.rank = "K" \/ c.rank = "J")
       \/ contractName = "kiz" /\ ~remaining(LAMBDA c : c.rank = "Q")

KingCompleteTrick(g) ==
    LET trickCards == [n \in 1 .. Len(g.currentTrick) |-> g.currentTrick[n].card]
        winner == IF g.contract.type = "trump"
                  THEN determineTrickWinnerWithTrump(g.currentTrick, g.contract.trumpSuit)
                  ELSE determineTrickWinner(g.currentTrick)
        tricksPlayed == g.tricksPlayed + 1
        isSonIki == g.contract.name = "sonIki"
        g1 == [g EXCEPT
                 !.tricksTaken[winner] = Append(@, g.currentTrick),
                 !.lastTrick = g.currentTrick,
                 !.tricksPlayed = tricksPlayed,
                 !.trick12Winner = IF isSonIki /\ tricksPlayed = TricksPerRound - 1
                                   THEN winner ELSE @,
                 !.trick13Winner = IF isSonIki /\ tricksPlayed = TricksPerRound
                                   THEN winner ELSE @]
        earlyEnd == checkEarlyGameEnd(g1, trickCards)
    IN IF g1.tricksPlayed = TricksPerRound \/ earlyEnd THEN KingCompleteGame(g1, winner)
       ELSE [ game |-> [g1 EXCEPT !.currentTrick = <<>>, !.currentPlayer = winner],
              result |-> [ success |-> TRUE, trickComplete |-> TRUE, winner |-> winner,
                           gameComplete |-> FALSE, trick |-> g1.lastTrick ] ]

KingPlayCard(g, playerIndex, card) ==
    IF g.phase # "playing" THEN Fail(g, "Not in playing phase")
    ELSE IF playerIndex # g.currentPlayer THEN Fail(g, "Not your turn")
    \* cardEquals(c, undefined) reads undefined.suit as soon as there is a c
    ELSE IF card = UndefinedCard /\ Len(KingGetLegalCards(g, playerIndex)) > 0
    THEN Throw(g)
    ELSE IF ~\E n \in 1 .. Len(KingGetLegalCards(g, playerIndex)) :
                cardEquals(KingGetLegalCards(g, playerIndex)[n], card)
    THEN Fail(g, "Illegal card play")
    ELSE LET g1 == [g EXCEPT
                      !.hands[playerIndex] = removeCard(@, card),
                      !.currentTrick = Append(@, [seat |-> playerIndex, card |-> card]),
                      !.heartsBroken =
                          IF card.suit = "hearts"
                             /\ (g.contract.name = "kupa" \/ g.contract.name = "rifki")
                          THEN TRUE ELSE @,
                      !.trumpBroken =
                          IF g.contract.type = "trump" /\ card.suit = g.contract.trumpSuit
                          THEN TRUE ELSE @]
         IN IF Len(g1.currentTrick) = 4 THEN KingCompleteTrick(g1)
            ELSE [ game |-> [g1 EXCEPT !.currentPlayer = (g.currentPlayer + 3) % 4],
                   result |-> [success |-> TRUE, trickComplete |-> FALSE] ]

KingStartNextGame(g, k) ==
    KingDeal([g EXCEPT !.gameNumber = @ + 1, !.selectorSeat = (@ + 3) % 4], k)

\* --------------------------------------- games/SpadesGame.js (Spades)
BID_SUCCESS_MULTIPLIER == 10
OVERTRICK_VALUE == 1
BAG_PENALTY_THRESHOLD == 10
BAG_PENALTY_AMOUNT == 100
NIL_SUCCESS == 50
BLIND_NIL_SUCCESS == 100
BlindNilDeficit == 100
MaxBid == 13
DEFAULT_WIN_THRESHOLD == 300

\* a bid value: null, 'nil', 'blind_nil', a number, or a value of another type
NullBid == [kind |-> "null", n |-> 0]
NilBid == [kind |-> "nil", n |-> 0]
BlindNilBid == [kind |-> "blind_nil", n |-> 0]
NumBid(n) == [kind |-> "number", n |-> n]
OtherBid == [kind |-> "other", n |-> 0]

NewSpadesGame(winThreshold) ==
    [ gameType |-> "spades",
      winThreshold |-> winThreshold,
      hands |-> EmptyHands,
      roundNumber |-> 1,
      phase |-> "dealing",
      bids |-> [s \in Seats |-> NullBid],
      bidsSubmitted |-> 0,
      currentTrick |-> <<>>,
      currentPlayer |-> 0,
      spadesBroken |-> FALSE,
      tricksTakenBySeat |-> ZeroScores,
      teamTricks |-> [t \in 0 .. 1 |-> 0],
      roundScores |-> [t \in 0 .. 1 |-> 0],
      cumulativeScores |-> [t \in 0 .. 1 |-> 0],
      bags |-> [t \in 0 .. 1 |-> 0],
      lastTrick |-> NULL,
      tricksPlayed |-> 0 ]

SpadesDeal(g, k) ==
    [g EXCEPT
       !.hands = dealHands(shuffleDeck(createDeck, k)),
       !.bids = [s \in Seats |-> NullBid],
       !.bidsSubmitted = 0,
       !.currentTrick = <<>>,
       !.spadesBroken = FALSE,
       !.tricksTakenBySeat = ZeroScores,
       !.teamTricks = [t \in 0 .. 1 |-> 0],
       !.roundScores = [t \in 0 .. 1 |-> 0],
       !.lastTrick = NULL,
       !.tricksPlayed = 0,
       !.phase = "bidding",
       !.currentPlayer = 0]

getTeamForSeat(seat) == seat % 2
getPartnerSeat(seat) == (seat + 2) % 4

\* canDeclareBlindNil that looks at the scores only
canDeclareBlindNilBehind(g, seat) ==
    g.cumulativeScores[1 - getTeamForSeat(seat)] - g.cumulativeScores[getTeamForSeat(seat)]
        >= BlindNilDeficit

canDeclareBlindNil(g, seat) ==
    LET team == getTeamForSeat(seat)
        behindBy == g.cumulativeScores[1 - team] - g.cumulativeScores[team]
    IN /\ ~(behindBy < BlindNilDeficit)
       /\ g.bids[getPartnerSeat(seat)].kind # "blind_nil"

SpadesSubmitBid(g, playerIndex, bid) ==
    IF g.phase # "bidding" THEN Fail(g, "Not in bidding phase")
    ELSE IF g.bids[playerIndex].kind # "null" THEN Fail(g, "Already submitted bid")
    ELSE IF bid.kind = "blind_nil" /\ ~canDeclareBlindNil(g, playerIndex)
    THEN Fail(g, "Cannot declare blind nil")
    ELSE IF bid.kind \notin {"blind_nil", "nil"}
            /\ (bid.kind # "number" \/ bid.n < 0 \/ bid.n > MaxBid)
    THEN Fail(g, "Invalid bid")
    ELSE LET g1 == [g EXCEPT !.bids[playerIndex] = bid, !.bidsSubmitted = @ + 1] IN
         IF g1.bidsSubmitted = 4
         THEN [ game |-> [g1 EXCEPT !.phase = "playing", !.currentPlayer = 0],
                result |-> [success |-> TRUE, allBidsIn |-> TRUE] ]
         ELSE [ game |-> [g1 EXCEPT !.currentPlayer = (g.currentPlayer + 1) % 4],
                result |-> [success |-> TRUE, allBidsIn |-> FALSE] ]

getEffectiveBid(bid) == IF bid.kind = "number" THEN bid.n ELSE 0

getTeamBid(g, team) ==
    getEffectiveBid(g.bids[IF team = 0 THEN 0 ELSE 1])
    + getEffectiveBid(g.bids[IF team = 0 THEN 2 ELSE 3])

SpadesGetLegalCards(g, playerIndex) ==
    LET hand == g.hands[playerIndex]
        isLeading == Len(g.currentTrick) = 0
        nonSpades == SelectSeq(hand, LAMBDA c : c.suit # "spades")
        sameSuit == getCardsOfSuit(hand, g.currentTrick[1].card.suit)
    IN IF isLeading
       THEN IF ~g.spadesBroken /\ Len(nonSpades) > 0 THEN nonSpades ELSE hand
       ELSE IF Len(sameSuit) > 0 THEN sameSuit
       ELSE hand

\* the nil bids left out of the score
nilScoreNone(bid, tricksTaken) == 0

nilScore(bid, tricksTaken) ==
    CASE bid.kind = "nil" -> IF tricksTaken = 0 THEN NIL_SUCCESS ELSE 0 - NIL_SUCCESS
      [] bid.kind = "blind_nil" ->
            IF tricksTaken = 0 THEN BLIND_NIL_SUCCESS ELSE 0 - BLIND_NIL_SUCCESS
      [] OTHER -> 0

\* if (bags >= 10) in place of the while
bagPenaltyOnce(score, bags) ==
    IF bags >= BAG_PENALTY_THRESHOLD
    THEN [score |-> score - BAG_PENALTY_AMOUNT, bags |-> bags - BAG_PENALTY_THRESHOLD]
    ELSE [score |-> score, bags |-> bags]

\* while (bags >= 10) { cumulative -= 100; bags -= 10 }
RECURSIVE bagPenalty(_, _)
bagPenalty(score, bags) ==
    IF bags >= BAG_PENALTY_THRESHOLD
    THEN bagPenalty(score - BAG_PENALTY_AMOUNT, bags - BAG_PENALTY_THRESHOLD)
    ELSE [score |-> score, bags |-> bags]

SpadesCompleteRound(g, lastTrickWinner) ==
    LET seat1(team) == IF team = 0 THEN 0 ELSE 1
        seat2(team) == IF team = 0 THEN 2 ELSE 3
        made(team) == g.teamTricks[team] >= getTeamBid(g, team)
        roundScores == [team \in 0 .. 1 |->
            nilScore(g.bids[seat1(team)], g.tricksTakenBySeat[seat1(team)])
            + nilScore(g.bids[seat2(team)], g.tricksTakenBySeat[seat2(team)])
            + (IF made(team)
               THEN getTeamBid(g, team) * BID_SUCCESS_MULTIPLIER
                    + (g.teamTricks[team] - getTeamBid(g, team)) * OVERTRICK_VALUE
               ELSE 0 - getTeamBid(g, team) * BID_SUCCESS_MULTIPLIER)]
        newBags == [team \in 0 .. 1 |->
            IF made(team) THEN g.teamTricks[team] - getTeamBid(g, team) ELSE 0]
        after == [team \in 0 .. 1 |->
            bagPenalty(g.cumulativeScores[team] + roundScores[team],
                       g.bags[team] + newBags[team])]
        cumulativeScores == [team \in 0 .. 1 |-> after[team].score]
        gameOver == Max(cumulativeScores[0], cumulativeScores[1]) >= g.winThreshold
    IN [ game |-> [g EXCEPT !.cumulativeScores = cumulativeScores,
                            !.bags = [team \in 0 .. 1 |-> after[team].bags],
                            !.roundScores = roundScores,
                            !.currentTrick = <<>>,
                            !.phase = "roundEnd"],
         result |-> [ success |-> TRUE, trickComplete |-> TRUE, winner |-> lastTrickWinner,
                      roundComplete |-> TRUE, roundScores |-> roundScores,
                      cumulativeScores |-> cumulativeScores, gameOver |-> gameOver ] ]

SpadesCompleteTrick(g) ==
    LET winner == determineTrickWinnerWithTrump(g.currentTrick, "spades")
        g1 == [g EXCEPT !.tricksTakenBySeat[winner] = @ + 1,
                        !.teamTricks[getTeamForSeat(winner)] = @ + 1,
                        !.lastTrick = g.currentTrick,
                        !.tricksPlayed = @ + 1]
    IN IF g1.tricksPlayed = TricksPerRound THEN SpadesCompleteRound(g1, winner)
       ELSE [ game |-> [g1 EXCEPT !.currentTrick = <<>>, !.currentPlayer = winner],
              result |-> [ success |-> TRUE, trickComplete |-> TRUE, winner |-> winner,
                           roundComplete |-> FALSE ] ]

SpadesPlayCard(g, playerIndex, card) ==
    IF g.phase # "playing" THEN Fail(g, "Not in playing phase")
    ELSE IF playerIndex # g.currentPlayer THEN Fail(g, "Not your turn")
    \* cardEquals(c, undefined) reads undefined.suit as soon as there is a c
    ELSE IF card = UndefinedCard /\ Len(SpadesGetLegalCards(g, playerIndex)) > 0
    THEN Throw(g)
    ELSE IF ~\E n \in 1 .. Len(SpadesGetLegalCards(g, playerIndex)) :
                cardEquals(SpadesGetLegalCards(g, playerIndex)[n], card)
    THEN Fail(g, "Illegal card play")
    ELSE LET g1 == [g EXCEPT
                      !.hands[playerIndex] = removeCard(@, card),
                      !.currentTrick = Append(@, [seat |-> playerIndex, card |-> card]),
                      !.spadesBroken = IF card.suit = "spades" THEN TRUE ELSE @]
         IN IF Len(g1.currentTrick) = 4 THEN SpadesCompleteTrick(g1)
            ELSE [ game |-> [g1 EXCEPT !.currentPlayer = (g.currentPlayer + 1) % 4],
                   result |-> [success |-> TRUE, trickComplete |-> FALSE] ]

SpadesStartNextRound(g, k) == SpadesDeal([g EXCEPT !.roundNumber = @ + 1], k)

\* --------------------------------------------- the engines, by type
GetLegalCards(g, playerIndex) ==
    CASE g.gameType = "hearts" -> HeartsGetLegalCards(g, playerIndex)
      [] g.gameType = "king" -> KingGetLegalCards(g, playerIndex)
      [] g.gameType = "spades" -> SpadesGetLegalCards(g, playerIndex)

PlayCard(g, playerIndex, card) ==
    CASE g.gameType = "hearts" -> HeartsPlayCard(g, playerIndex, card)
      [] g.gameType = "king" -> KingPlayCard(g, playerIndex, card)
      [] g.gameType = "spades" -> SpadesPlayCard(g, playerIndex, card)

\* ------------------------------------------------- the engines' runs
\* Table.startGame(): the engine constructed and dealt
DefaultEndingScore == 20

\* options.endingScore of createTable: the points of the queen of spades, or
\* none and the default
EndingScores == {13, DefaultEndingScore}

\* table.rematchVotes = {}
NoVotes == <<>>

\* an engine that no controller drives
TableIdle ==
    /\ timers = <<>>
    /\ rematchVotes = NoVotes

\* an empty registry with no connection
LobbyIdle ==
    /\ tables = <<>>
    /\ sockets = <<>>
    /\ cleanups = <<>>
    /\ destroyed = <<>>

EngineInit ==
    /\ \E k \in ShuffleIds :
          game \in { HeartsDeal(NewHeartsGame(DefaultEndingScore), k),
                     KingDeal(NewKingGame(0), k),
                     SpadesDeal(NewSpadesGame(DEFAULT_WIN_THRESHOLD), k) }
    /\ trickLog = <<>>
    /\ TableIdle
    /\ LobbyIdle

\* the passes a client sends: three cards of the hand, two cards, a card twice,
\* and a card of another hand
PassInputs(g, seat) ==
    LET hand == g.hands[seat]
        other == g.hands[(seat + 1) % 4]
    IN IF Len(hand) < 3 \/ Len(other) < 1 THEN {}
       ELSE { <<hand[1], hand[2], hand[3]>>,
              <<hand[1], hand[2]>>,
              <<hand[1], hand[1], hand[2]>>,
              <<hand[1], hand[2], other[1]>> }

LogTrick(r) ==
    trickLog' = IF r.result.trickComplete THEN Append(trickLog, r.result.winner)
                ELSE trickLog

\* A call that fails returns before it assigns anything (the engines' early
\* returns), so only the calls that succeed are steps.
HeartsSubmitPassStep ==
    /\ game.gameType = "hearts"
    /\ game.phase = "passing"
    /\ \E seat \in Seats : \E cards \in PassInputs(game, seat) :
          LET r == HeartsSubmitPass(game, seat, cards) IN
          /\ r.result.success
          /\ game' = r.game
    /\ UNCHANGED trickLog
    /\ UNCHANGED <<tableVars, lobbyVars>>

HeartsPlayCardStep ==
    /\ game.gameType = "hearts"
    /\ game.phase = "playing"
    /\ \E seat \in Seats : \E card \in AllCards :
          LET r == HeartsPlayCard(game, seat, card) IN
          /\ r.result.success
          /\ game' = r.game
          /\ LogTrick(r)
    /\ UNCHANGED <<tableVars, lobbyVars>>

ContractTypeInputs == {"penalty", "trump", "bogus"}
ContractNameInputs == {"el", "kupa", "rifki", "sonIki", "RIFKI", "bogus", UNDEFINED}
TrumpSuitInputs == {"spades", "hearts", UNDEFINED}

KingSelectContractStep ==
    /\ game.gameType = "king"
    /\ game.phase = "selecting"
    /\ \E seat \in Seats : \E type \in ContractTypeInputs :
       \E name \in ContractNameInputs : \E suit \in TrumpSuitInputs :
          LET r == KingSelectContract(game, seat, type, name, suit) IN
          /\ r.result.success
          /\ game' = r.game
    /\ UNCHANGED trickLog
    /\ UNCHANGED <<tableVars, lobbyVars>>

KingPlayCardStep ==
    /\ game.gameType = "king"
    /\ game.phase = "playing"
    /\ \E seat \in Seats : \E card \in AllCards :
          LET r == KingPlayCard(game, seat, card) IN
          /\ r.result.success
          /\ game' = r.game
          /\ LogTrick(r)
    /\ UNCHANGED <<tableVars, lobbyVars>>

BidInputs == {NumBid(0 - 1), NumBid(1), NumBid(MaxBid + 1), NilBid, BlindNilBid, OtherBid}

SpadesSubmitBidStep ==
    /\ game.gameType = "spades"
    /\ game.phase = "bidding"
    /\ \E seat \in Seats : \E bid \in BidInputs :
          LET r == SpadesSubmitBid(game, seat, bid) IN
          /\ r.result.success
          /\ game' = r.game
    /\ UNCHANGED trickLog
    /\ UNCHANGED <<tableVars, lobbyVars>>

SpadesPlayCardStep ==
    /\ game.gameType = "spades"
    /\ game.phase = "playing"
    /\ \E seat \in Seats : \E card \in AllCards :
          LET r == SpadesPlayCard(game, seat, card) IN
          /\ r.result.success
          /\ game' = r.game
          /\ LogTrick(r)
    /\ UNCHANGED <<tableVars, lobbyVars>>

EngineNext ==
    \/ HeartsSubmitPassStep
    \/ HeartsPlayCardStep
    \/ KingSelectContractStep
    \/ KingPlayCardStep
    \/ SpadesSubmitBidStep
    \/ SpadesPlayCardStep

\* one round of each engine, every input
Spec == EngineInit /\ [][EngineNext]_vars

\* ------------------------------------------------------ a King party
\* the card the turn timer plays: legalCards.sort(by rank)[0] (a stable sort)
LowestCard(legalCards) ==
    legalCards[CHOOSE n \in 1 .. Len(legalCards) :
        /\ \A m \in 1 .. Len(legalCards) :
              RANK_VALUES[legalCards[n].rank] <= RANK_VALUES[legalCards[m].rank]
        /\ \A m \in 1 .. (n - 1) :
              RANK_VALUES[legalCards[m].rank] > RANK_VALUES[legalCards[n].rank]]

PartyInit ==
    /\ \E k \in ShuffleIds : game = KingDeal(NewKingGame(0), k)
    /\ trickLog = <<>>
    /\ TableIdle
    /\ LobbyIdle

\* the cards of a party are played as the turn timer plays them
KingAutoPlayStep ==
    /\ game.gameType = "king"
    /\ game.phase = "playing"
    /\ Len(KingGetLegalCards(game, game.currentPlayer)) > 0
    /\ LET r == KingPlayCard(game, game.currentPlayer,
                             LowestCard(KingGetLegalCards(game, game.currentPlayer))) IN
       /\ game' = r.game
       /\ LogTrick(r)
    /\ UNCHANGED <<tableVars, lobbyVars>>

\* startNextGame(): the nextRound event calls it in any phase
KingStartNextGameStep ==
    /\ game.gameType = "king"
    /\ game.gameNumber < MaxGames
    /\ \E k \in ShuffleIds : game' = KingStartNextGame(game, k)
    /\ trickLog' = <<>>
    /\ UNCHANGED <<tableVars, lobbyVars>>

PartyNext ==
    \/ KingSelectContractStep
    \/ KingAutoPlayStep
    \/ KingStartNextGameStep

SpecParty == PartyInit /\ [][PartyNext]_vars

\* ------------------------------------- the selectors' quotas in a party
\* A party started with any selector (new KingGame(initialSelectorSeat)) in
\* which the first selector selects in its games, every fourth one, and the
\* games between are passed over by nextRound, so that the first selector
\* comes to select for the fifth time within QuotaGames games.
QuotaInit ==
    /\ \E initialSelectorSeat \in Seats : \E k \in ShuffleIds :
          game = KingDeal(NewKingGame(initialSelectorSeat), k)
    /\ trickLog = <<>>
    /\ TableIdle
    /\ LobbyIdle

\* selectContract in a game of the first selector
QuotaSelectStep ==
    /\ (game.gameNumber - 1) % 4 = 0
    /\ KingSelectContractStep

\* startNextGame() by nextRound, whether a contract was selected or not
QuotaNextGameStep ==
    /\ game.gameType = "king"
    /\ game.gameNumber < QuotaGames
    /\ \E k \in ShuffleIds : game' = KingStartNextGame(game, k)
    /\ UNCHANGED trickLog
    /\ UNCHANGED <<tableVars, lobbyVars>>

QuotaNext ==
    \/ QuotaSelectStep
    \/ QuotaNextGameStep

SpecQuota == QuotaInit /\ [][QuotaNext]_vars

\* ------------------------------------- the selections of a whole party
\* getAvailableContracts(playerSeat): the six penalties when the seat has a
\* penalty left, then the four trump suits when it has a trump left, each
\* with its usage read under the name of PENALTY_CONTRACTS (the labels of the
\* entries are left out)
AvailableTrumpSuits == <<"spades", "hearts", "clubs", "diamonds">>
getAvailableContracts(g, playerSeat) ==
    LET usage == g.contractsUsed[playerSeat]
        globalUsage(key) == IF GetNum(g.globalContractUsage, key) = NaN THEN 0
                            ELSE GetNum(g.globalContractUsage, key)
    IN (IF usage.penalties < 3
        THEN [n \in 1 .. Len(PenaltyNames) |->
                 [type |-> PenaltyNames[n], trumpSuit |-> UNDEFINED,
                  usageCount |-> globalUsage(PenaltyNames[n]),
                  disabled |-> globalUsage(PenaltyNames[n]) >= 2]]
        ELSE <<>>)
       \o (IF usage.trumps < 2
           THEN [n \in 1 .. Len(AvailableTrumpSuits) |->
                    [type |-> "trump", trumpSuit |-> AvailableTrumpSuits[n],
                     usageCount |-> globalUsage(trumpKey(AvailableTrumpSuits[n])),
                     disabled |-> globalUsage(trumpKey(AvailableTrumpSuits[n])) >= 2]]
           ELSE <<>>)

\* selectContract for an entry of getAvailableContracts
SelectListed(g, entry) ==
    IF entry.type = "trump"
    THEN KingSelectContract(g, g.selectorSeat, "trump", UNDEFINED, entry.trumpSuit)
    ELSE KingSelectContract(g, g.selectorSeat, "penalty", entry.type, UNDEFINED)

\* the places in the selector's list of the entries that are not disabled and
\* that selectContract accepts
Selectable(g) ==
    {n \in 1 .. Len(getAvailableContracts(g, g.selectorSeat)) :
        /\ ~getAvailableContracts(g, g.selectorSeat)[n].disabled
        /\ SelectListed(g, getAvailableContracts(g, g.selectorSeat)[n]).result.success}

\* of these the first penalty and the first trump
FirstOfEachType(g) ==
    LET list == getAvailableContracts(g, g.selectorSeat) IN
    {n \in Selectable(g) :
        \A m \in Selectable(g) :
            (list[m].type = "trump") = (list[n].type = "trump") => n <= m}

\* A party of PartyGames games, one deal, in which the selector of every game
\* selects the first penalty or the first trump it can and nextRound starts
\* the next game once the contract is selected.
SelectionsInit ==
    /\ game = KingDeal(NewKingGame(0), 0)
    /\ trickLog = <<>>
    /\ TableIdle
    /\ LobbyIdle

SelectListedStep ==
    /\ game.gameType = "king"
    /\ game.phase = "selecting"
    /\ \E n \in FirstOfEachType(game) :
          game' = SelectListed(game, getAvailableContracts(game, game.selectorSeat)[n]).game
    /\ UNCHANGED trickLog
    /\ UNCHANGED <<tableVars, lobbyVars>>

SelectionsNextGameStep ==
    /\ game.gameType = "king"
    /\ game.phase = "playing"
    /\ game.gameNumber < PartyGames
    /\ game' = KingStartNextGame(game, 0)
    /\ UNCHANGED trickLog
    /\ UNCHANGED <<tableVars, lobbyVars>>

SelectionsNext ==
    \/ SelectListedStep
    \/ SelectionsNextGameStep

SpecSelections == SelectionsInit /\ [][SelectionsNext]_vars

\* the contracts of a party: the six penalties and the four trump suits
PartyContracts ==
    {[type |-> "penalty", name |-> PenaltyNames[n], trumpSuit |-> UNDEFINED] :
        n \in 1 .. Len(PenaltyNames)}
    \cup {[type |-> "trump", name |-> UNDEFINED, trumpSuit |-> TrumpSuits[n]] :
        n \in 1 .. Len(TrumpSuits)}

\* ------------------------------------------- the games of a King party
\* One game under each contract, every legal card.  The deck is dealt at three
\* ranks a suit, the 2, Q, K of the other runs or others, so that erkek has
\* its jacks and a king can lie under an ace.
DeckOf(ranks) == [i \in 1 .. (Len(SUITS) * Len(ranks)) |->
    Card(SUITS[((i - 1) \div Len(ranks)) + 1], ranks[((i - 1) % Len(ranks)) + 1])]

\* the deck in an order that deals each seat the two low cards of one suit
\* and the high card of the next
PairedDeck(ranks) == [i \in 1 .. DeckSize |->
    IF (i - 1) \div 4 < 2
    THEN Card(SUITS[((i - 1) % 4) + 1], ranks[((i - 1) \div 4) + 1])
    ELSE Card(SUITS[(i % 4) + 1], ranks[3])]

KingDecks == { createDeck, DeckOf(<<"J", "K", "A">>),
               PairedDeck(RANKS), PairedDeck(<<"2", "K", "A">>) }

KingInit ==
    /\ \E deck \in KingDecks : \E k \in ShuffleIds :
          game = [KingDeal(NewKingGame(0), k) EXCEPT
                     !.hands = dealHands(shuffleDeck(deck, k))]
    /\ trickLog = <<>>
    /\ TableIdle
    /\ LobbyIdle

\* selectContract by the selector, any contract of the party
KingSelectAnyStep ==
    /\ game.gameType = "king"
    /\ game.phase = "selecting"
    /\ \E c \in PartyContracts :
          LET r == KingSelectContract(game, game.selectorSeat, c.type, c.name, c.trumpSuit) IN
          /\ r.result.success
          /\ game' = r.game
    /\ UNCHANGED trickLog
    /\ UNCHANGED <<tableVars, lobbyVars>>

\* playCard by any seat with any card it holds
KingPlayHeldStep ==
    /\ game.gameType = "king"
    /\ game.phase = "playing"
    /\ \E seat \in Seats : \E card \in SeqToSet(game.hands[seat]) :
          LET r == KingPlayCard(game, seat, card) IN
          /\ r.result.success
          /\ game' = r.game
          /\ LogTrick(r)
    /\ UNCHANGED <<tableVars, lobbyVars>>

KingNext ==
    \/ KingSelectAnyStep
    \/ KingPlayHeldStep

SpecKing == KingInit /\ [][KingNext]_vars

\* ------------------------------------------------ the Hearts passes
\* The passes of the rounds 1 to 4 on hands of four cards, so that a card
\* stays in the hand that passes three.
PassDeck == DeckOf(<<"2", "Q", "K", "A">>)

\* the hands of round roundNumber as deal() leaves them
PassInit ==
    /\ \E roundNumber \in 1 .. 4 : \E k \in ShuffleIds :
          game = HeartsDealOf([NewHeartsGame(DefaultEndingScore) EXCEPT
                                  !.roundNumber = roundNumber], PassDeck, k)
    /\ trickLog = <<>>
    /\ TableIdle
    /\ LobbyIdle

\* the passes of three different cards of the seat's hand
HeldPasses(g, seat) ==
    LET hand == g.hands[seat] IN
    {<<hand[t[1]], hand[t[2]], hand[t[3]]>> :
        t \in {u \in (1 .. Len(hand)) \X (1 .. Len(hand)) \X (1 .. Len(hand)) :
                  u[1] < u[2] /\ u[2] < u[3]}}

\* submitPass by any seat, a first pass or one that replaces its earlier one
HeldPassStep ==
    /\ game.gameType = "hearts"
    /\ game.phase = "passing"
    /\ \E seat \in Seats : \E cards \in HeldPasses(game, seat) :
          LET r == HeartsSubmitPass(game, seat, cards) IN
          /\ r.result.success
          /\ game' = r.game
    /\ UNCHANGED trickLog
    /\ UNCHANGED <<tableVars, lobbyVars>>

SpecPass == PassInit /\ [][HeldPassStep]_vars

\* ------------------------------------------------- a Hearts round
\* A round of each pass direction, every pass of held cards and every card.
\* The deck is dealt suit by suit, in the paired order, so that each seat
\* holds a suit, or mixed.
SuitedDeck(ranks) == [i \in 1 .. (Len(SUITS) * Len(ranks)) |->
    Card(SUITS[((i - 1) % 4) + 1], ranks[((i - 1) \div 4) + 1])]

\* the deck in an order that deals seat 1 hearts and the queen of spades only
\* and seat 2 the club that takes the first trick, a heart and a diamond
MixedDeck ==
    << Card("clubs", "2"), Card("hearts", "Q"), Card("clubs", "Q"), Card("diamonds", "K"),
       Card("clubs", "K"), Card("hearts", "K"), Card("hearts", "2"), Card("spades", "2"),
       Card("diamonds", "Q"), Card("spades", "Q"), Card("diamonds", "2"), Card("spades", "K") >>

HeartsDecks == {createDeck, PairedDeck(RANKS), SuitedDeck(RANKS), MixedDeck}

HeartsInit ==
    /\ \E roundNumber \in 1 .. 4 : \E deck \in HeartsDecks : \E k \in ShuffleIds :
          game = HeartsDealOf([NewHeartsGame(DefaultEndingScore) EXCEPT
                                  !.roundNumber = roundNumber], deck, k)
    /\ trickLog = <<>>
    /\ TableIdle
    /\ LobbyIdle

HeartsNext ==
    \/ HeldPassStep
    \/ HeartsPlayCardStep

SpecHearts == HeartsInit /\ [][HeartsNext]_vars

\* ------------------------------------------------ the Spades bids
\* The bids of the second round, dealt at scores and bags a first round can
\* leave: level, a team behind by 99, by 100, by 101, and the other team
\* behind by 124.
TeamScores(a, b) == [team \in 0 .. 1 |-> <<a, b>>[team + 1]]

\* a number for each seat
Scores(a, b, c, d) == [s \in Seats |-> <<a, b, c, d>>[s + 1]]

AfterFirstRound ==
    { [cumulativeScores |-> TeamScores(0 - 150, 0 - 150), bags |-> TeamScores(0, 0)],
      [cumulativeScores |-> TeamScores(0 - 60, 39), bags |-> TeamScores(0, 9)],
      [cumulativeScores |-> TeamScores(0 - 50, 50), bags |-> TeamScores(0, 0)],
      [cumulativeScores |-> TeamScores(1, 102), bags |-> TeamScores(1, 2)],
      [cumulativeScores |-> TeamScores(64, 0 - 60), bags |-> TeamScores(4, 0)] }

BidInit ==
    /\ \E first \in AfterFirstRound : \E k \in ShuffleIds :
          game = SpadesDeal([NewSpadesGame(DEFAULT_WIN_THRESHOLD) EXCEPT
                                !.roundNumber = 2,
                                !.cumulativeScores = first.cumulativeScores,
                                !.bags = first.bags], k)
    /\ trickLog = <<>>
    /\ TableIdle
    /\ LobbyIdle

SpecBids == BidInit /\ [][SpadesSubmitBidStep]_vars

\* ------------------------------------------- the end of a Spades round
\* completeRound on the bids and tricks a round of 13 tricks can end with, at
\* the scores and bags a first round can leave.  The engine is as
\* completeTrick hands it over after the last trick; completeRound reads the
\* bids, the tricks, the bags and the scores only.
TallyStarts ==
    AfterFirstRound
    \cup { [cumulativeScores |-> TeamScores(58, 0), bags |-> TeamScores(8, 0)],
           [cumulativeScores |-> TeamScores(39, 1), bags |-> TeamScores(9, 1)] }

\* the tricks of the seats: 13 in all
TrickInputs ==
    { Scores(3, 0, 4, 6), Scores(13, 0, 0, 0), Scores(0, 5, 0, 8), Scores(4, 3, 3, 3),
      Scores(1, 2, 0, 10) }

BidValues == {NumBid(2), NumBid(3), NumBid(4), NilBid, BlindNilBid}

\* the bids submitBid can have accepted at scores cumulativeScores
BidsAt(cumulativeScores) ==
    {bids \in [Seats -> BidValues] :
        \A seat \in Seats :
            bids[seat] = BlindNilBid =>
                /\ cumulativeScores[(seat + 1) % 2] - cumulativeScores[seat % 2]
                      >= BlindNilDeficit
                /\ bids[(seat + 2) % 4] # BlindNilBid}

TallyInit ==
    /\ \E start \in TallyStarts : \E tricksTakenBySeat \in TrickInputs :
       \E bids \in BidsAt(start.cumulativeScores) :
          game = [NewSpadesGame(DEFAULT_WIN_THRESHOLD) EXCEPT
                     !.roundNumber = 2,
                     !.phase = "playing",
                     !.bids = bids,
                     !.bidsSubmitted = 4,
                     !.spadesBroken = TRUE,
                     !.tricksTakenBySeat = tricksTakenBySeat,
                     !.teamTricks = TeamScores(tricksTakenBySeat[0] + tricksTakenBySeat[2],
                                               tricksTakenBySeat[1] + tricksTakenBySeat[3]),
                     !.tricksPlayed = tricksTakenBySeat[0] + tricksTakenBySeat[1]
                                      + tricksTakenBySeat[2] + tricksTakenBySeat[3],
                     !.cumulativeScores = start.cumulativeScores,
                     !.bags = start.bags]
    /\ trickLog = <<>>
    /\ TableIdle
    /\ LobbyIdle

\* a Spades engine whose last trick is counted and whose round is to be
\* completed
RoundToTally(g) ==
    /\ g.gameType = "spades"
    /\ g.phase = "playing"
    /\ g.hands = EmptyHands
    /\ g.bidsSubmitted = 4

TallyStep ==
    /\ RoundToTally(game)
    /\ \E lastTrickWinner \in Seats :
          game' = SpadesCompleteRound(game, lastTrickWinner).game
    /\ UNCHANGED trickLog
    /\ UNCHANGED <<tableVars, lobbyVars>>

\* startNextRound() after a round that did not end the game
TallyNextRoundStep ==
    /\ game.gameType = "spades"
    /\ game.phase = "roundEnd"
    /\ Max(game.cumulativeScores[0], game.cumulativeScores[1]) < game.winThreshold
    /\ \E k \in ShuffleIds : game' = SpadesStartNextRound(game, k)
    /\ UNCHANGED trickLog
    /\ UNCHANGED <<tableVars, lobbyVars>>

TallyNext ==
    \/ TallyStep
    \/ TallyNextRoundStep

SpecTally == TallyInit /\ [][TallyNext]_vars

\* ------------------------------------------- the end of a Hearts round
\* completeRound on the scores a round can end with.  The engine is as
\* completeTrick hands it over after the last trick: the hands empty, the
\* round's points counted; completeRound reads the scores and endingScore only.
\* the points of a round: the queen of spades to one seat, the hearts shared
RoundScoreInputs ==
    {rs \in [Seats -> (0 .. Len(RANKS)) \cup (13 .. MoonPoints)] :
        /\ rs[0] + rs[1] + rs[2] + rs[3] = MoonPoints
        /\ \E q \in Seats : rs[q] >= 13}

\* the cumulative scores before the round: none; one round played, without
\* and with a moon shot by seat 2; two rounds played
CumulativeInputs ==
    { ZeroScores,
      Scores(13, 3, 0, 0),
      Scores(MoonPoints, MoonPoints, 0, MoonPoints),
      Scores(14, 14, 2, 2),
      Scores(18, 1, 13, 0) }

RoundInit ==
    /\ \E endingScore \in EndingScores : \E cumulativeScores \in CumulativeInputs :
       \E roundScores \in RoundScoreInputs :
          /\ \A s \in Seats : cumulativeScores[s] < endingScore
          /\ game = [NewHeartsGame(endingScore) EXCEPT
                        !.phase = "playing",
                        !.passDirection = "left",
                        !.tricksPlayed = TricksPerRound,
                        !.roundScores = roundScores,
                        !.cumulativeScores = cumulativeScores]
    /\ trickLog = <<>>
    /\ TableIdle
    /\ LobbyIdle

CompleteRoundStep ==
    /\ game.gameType = "hearts"
    /\ game.phase = "playing"
    /\ game.tricksPlayed = TricksPerRound
    /\ \E lastTrickWinner \in Seats :
          game' = HeartsCompleteRound(game, lastTrickWinner).game
    /\ UNCHANGED trickLog
    /\ UNCHANGED <<tableVars, lobbyVars>>

\* startNextRound() after a round that did not end the game
NextRoundStep ==
    /\ game.gameType = "hearts"
    /\ game.phase = "roundEnd"
    /\ \A s \in Seats : game.cumulativeScores[s] < game.endingScore
    /\ \E k \in ShuffleIds : game' = HeartsStartNextRound(game, k)
    /\ UNCHANGED trickLog
    /\ UNCHANGED <<tableVars, lobbyVars>>

RoundNext ==
    \/ CompleteRoundStep
    \/ NextRoundStep

SpecRound == RoundInit /\ [][RoundNext]_vars

\* ================================================ the controller (part_008)
\* ------------------------------------------------------- one table in play
\* Four connected players, socket i in seat i, from the fourth joinTable on.
\* A pending setTimeout callback is a record: its kind, the time that remains,
\* and what its closure captured (the seat of a turn timer, the result of the
\* play that armed a trickEnd).
turnDuration == 30000
warningTime == 20000
passDuration == 30000
selectDuration == 45000
TrickEndDelay == 500
AutoTrickEndDelay == 1500
ContinueDelay == 2000
FirstCardDelay == 500
ExchangeDelay == 2500
HeartsNextRoundDelay == 8000
KingNextGameDelay == 5000

NoResult == [complete |-> FALSE, over |-> FALSE, winner |-> NoSeat, points |-> 0,
             trick |-> <<>>]

\* What the trickEnd callback keeps of the result of the play that completed
\* the trick: result.gameComplete / result.partyOver (King),
\* result.roundComplete / result.gameOver (Hearts), result.winner and
\* result.points || 0 (a King result has no points).  trick is the trick that
\* play completed; the callback does not hold it.
ResultOf(g, r) ==
    IF g.gameType = "king"
    THEN [complete |-> r.result.gameComplete,
          over |-> r.result.gameComplete /\ r.result.partyOver,
          winner |-> r.result.winner, points |-> 0, trick |-> r.result.trick]
    ELSE [complete |-> r.result.roundComplete,
          over |-> r.result.roundComplete /\ r.result.gameOver,
          winner |-> r.result.winner, points |-> r.result.points,
          trick |-> r.result.trick]

\* the trickEnd event of the callback: the winner and the points of the result
\* it keeps, lastTrick read from the engine when the event is emitted (null
\* from a deal until a trick is completed, that is while tricksPlayed is 0)
TrickEndEvent(g, result) ==
    [winner |-> result.winner, points |-> result.points,
     lastTrick |-> IF g.tricksPlayed = 0 THEN <<>> ELSE g.lastTrick]

setTimeout(ts, kind, delay, seat, result) ==
    Append(ts, [kind |-> kind, remaining |-> delay, seat |-> seat, result |-> result])

clearTimeout(ts, kinds) == SelectSeq(ts, LAMBDA t : t.kind \notin kinds)

\* timer n is the next to expire: the least remaining time, the earliest armed
Due(ts, n) ==
    \A m \in 1 .. Len(ts) :
        \/ ts[m].remaining > ts[n].remaining
        \/ ts[m].remaining = ts[n].remaining /\ m >= n

\* the timers that stay pending when timer n expires
Elapse(ts, n) ==
    [m \in 1 .. (Len(ts) - 1) |->
        LET t == ts[IF m < n THEN m ELSE m + 1] IN
        [t EXCEPT !.remaining = @ - ts[n].remaining]]

\* a completed trick whose trickEnd, or the updateGame that follows it, is
\* still to be emitted
AnimationInFlight(ts) ==
    \E n \in 1 .. Len(ts) : ts[n].kind \in {"trickEnd", "continue"}

clearTurnTimer(ts) == clearTimeout(ts, {"turn", "turnWarning"})
clearPassTimer(ts) == clearTimeout(ts, {"pass"})
clearSelectTimer(ts) == clearTimeout(ts, {"select"})

startTurnTimer(g, ts) ==
    LET ts1 == clearTurnTimer(ts) IN
    IF g.phase # "playing" THEN [timers |-> ts1, events |-> <<>>]
    ELSE [timers |-> setTimeout(setTimeout(ts1, "turnWarning", warningTime,
                                           g.currentPlayer, NoResult),
                                "turn", turnDuration, g.currentPlayer, NoResult),
          events |-> <<"turnStart">>]

startPassTimer(ts) ==
    [timers |-> setTimeout(clearPassTimer(ts), "pass", passDuration, NoSeat, NoResult),
     events |-> <<"passTimerStart">>]

startSelectTimer(g, ts) ==
    LET ts1 == clearSelectTimer(ts) IN
    IF g.phase # "selecting" THEN [timers |-> ts1, events |-> <<>>]
    ELSE [timers |-> setTimeout(ts1, "select", selectDuration, NoSeat, NoResult),
          events |-> <<"selectTimerStart">>]

\* what joinTable, nextRound, rematch and the end-of-game callbacks do after a
\* deal: contractSelectionStart and the select timer (King); startGame and
\* the pass timer or the delayed autoPlayTwoOfClubs (Hearts)
AfterDeal(g, ts) ==
    IF g.gameType = "king"
    THEN LET st == startSelectTimer(g, ts) IN
         [timers |-> st.timers, events |-> <<"contractSelectionStart">> \o st.events]
    ELSE IF g.phase = "passing"
    THEN LET st == startPassTimer(ts) IN
         [timers |-> st.timers, events |-> <<"startGame">> \o st.events]
    ELSE IF g.phase = "playing"
    THEN [timers |-> setTimeout(ts, "autoTwo", FirstCardDelay, NoSeat, NoResult),
          events |-> <<"startGame">>]
    ELSE [timers |-> ts, events |-> <<"startGame">>]

\* what the playCard handler and the turn timer do after an accepted play
AfterPlay(g, r, ts, delay) ==
    IF r.result.trickComplete
    THEN [timers |-> setTimeout(ts, "trickEnd", delay, NoSeat, ResultOf(g, r)),
          events |-> <<"cardPlayed">>]
    ELSE LET st == startTurnTimer(r.game, ts) IN
         [timers |-> st.timers, events |-> <<"cardPlayed", "updateGame">> \o st.events]

\* Table.startGame() as the fourth joinTable runs it
TableInit ==
    /\ \E k \in ShuffleIds :
          game \in { HeartsDeal(NewHeartsGame(endingScore), k) :
                        endingScore \in EndingScores }
                   \cup { KingDeal(NewKingGame(0), k) }
    /\ trickLog = <<>>
    /\ timers = AfterDeal(game, <<>>).timers
    /\ rematchVotes = NoVotes
    /\ LobbyIdle

\* whether getLegalCards returned the hand array itself and not a filtered copy
HeartsLegalIsHand(g, playerIndex) ==
    LET hand == g.hands[playerIndex]
        isLeading == Len(g.currentTrick) = 0
        nonHearts == SelectSeq(hand, LAMBDA c : c.suit # "hearts")
        sameSuit == getCardsOfSuit(hand, g.currentTrick[1].card.suit)
        safe == SelectSeq(hand, LAMBDA c : c.suit # "hearts" /\ ~isQueenOfSpades(c))
    IN IF g.tricksPlayed = 0 /\ isLeading THEN FALSE
       ELSE IF isLeading THEN ~(~g.heartsBroken /\ Len(nonHearts) > 0)
       ELSE Len(sameSuit) = 0 /\ ~(g.tricksPlayed = 0 /\ Len(safe) > 0)

KingLegalIsHand(g, playerIndex) ==
    LET hand == g.hands[playerIndex]
        isLeading == Len(g.currentTrick) = 0
        name == g.contract.name
        holds(P(_)) == \E n \in 1 .. Len(hand) : P(hand[n])
        sameSuit == getCardsOfSuit(hand, g.currentTrick[1].card.suit)
    IN IF g.contract.type = "trump"
       THEN IF isLeading
            THEN ~(~g.trumpBroken /\ holds(LAMBDA c : c.suit # g.contract.trumpSuit))
            ELSE Len(sameSuit) = 0
       ELSE IF isLeading /\ (name = "kupa" \/ name = "rifki")
       THEN ~(~g.heartsBroken /\ holds(LAMBDA c : c.suit # "hearts"))
       ELSE IF isLeading THEN TRUE
       ELSE IF Len(sameSuit) > 0 THEN FALSE
       ELSE ~ \/ name = "erkek" /\ holds(LAMBDA c : c.rank = "K" \/ c.rank = "J")
              \/ name = "kiz" /\ holds(LAMBDA c : c.rank = "Q")
              \/ name = "rifki" /\ holds(LAMBDA c : c.suit = "hearts")
              \/ name = "kupa" /\ holds(LAMBDA c : c.suit = "hearts")

LegalIsHand(g, playerIndex) ==
    IF g.gameType = "king" THEN KingLegalIsHand(g, playerIndex)
    ELSE HeartsLegalIsHand(g, playerIndex)

\* legalCards.sort((a, b) => RANK_VALUES[a.rank] - RANK_VALUES[b.rank]): stable
RECURSIVE InsertByRank(_, _)
InsertByRank(s, c) ==
    IF s = <<>> THEN <<c>>
    ELSE IF RANK_VALUES[c.rank] - RANK_VALUES[Head(s).rank] < 0 THEN <<c>> \o s
    ELSE <<Head(s)>> \o InsertByRank(Tail(s), c)

RECURSIVE sortByRank(_)
sortByRank(cards) ==
    IF cards = <<>> THEN <<>>
    ELSE InsertByRank(sortByRank(SubSeq(cards, 1, Len(cards) - 1)), cards[Len(cards)])

\* ------------------------------------------------------ socket handlers
\* A handler or a timer callback is an operator from the table it finds to
\* what it leaves: the engine, the pending timers, how it ended, the events
\* it emitted in order and the winner of the trick it completed, if any.
Out(g, ts, outcome, events, won) ==
    [game |-> g, timers |-> ts, outcome |-> outcome, events |-> events, won |-> won]

WonBy(r) == IF r.result.trickComplete THEN <<r.result.winner>> ELSE <<>>

\* socket.on('playCard')
OnPlayCard(g, ts, seat, card) ==
    LET ts1 == clearTurnTimer(ts)
        r == PlayCard(g, seat, card)
    IN IF Threw(r) THEN Out(g, ts1, "threw", <<>>, <<>>)
       ELSE IF ~r.result.success
       THEN LET st == startTurnTimer(g, ts1) IN
            Out(g, st.timers, "rejected", <<"error">> \o st.events, <<>>)
       \* cardPlayed, then updateSpectators(table), then what follows the play
       ELSE LET a == AfterPlay(g, r, ts1, TrickEndDelay) IN
            Out(r.game, a.timers, "accepted",
                <<Head(a.events), "spectatorUpdate">> \o Tail(a.events), WonBy(r))

\* socket.on('selectContract')
OnSelectContract(g, ts, seat, contractType, contractName, trumpSuit) ==
    LET ts1 == clearSelectTimer(ts)
        r == KingSelectContract(g, seat, contractType, contractName, trumpSuit)
    IN IF Threw(r) THEN Out(g, ts1, "threw", <<>>, <<>>)
       ELSE IF ~r.result.success
       THEN LET st == startSelectTimer(g, ts1) IN
            Out(g, st.timers, "rejected", <<"error">> \o st.events, <<>>)
       ELSE LET st == startTurnTimer(r.game, ts1) IN
            Out(r.game, st.timers, "accepted",
                <<"contractSelected", "updateGame">> \o st.events, <<>>)

\* socket.on('submitPass')
OnSubmitPass(g, ts, seat, cards) ==
    LET r == HeartsSubmitPass(g, seat, cards) IN
    IF ~r.result.success THEN Out(g, ts, "rejected", <<"error">>, <<>>)
    ELSE IF r.result.allPassed
    THEN Out(r.game,
             setTimeout(clearPassTimer(ts), "autoTwo", ExchangeDelay, NoSeat, NoResult),
             "accepted", <<"passSubmitted", "cardsReceived">>, <<>>)
    ELSE Out(r.game, ts, "accepted", <<"passSubmitted">>, <<>>)

\* socket.on('nextRound'), and the deal of a rematch carried (g1 the engine
\* after startNextRound, startNextGame or the new game's deal)
OnDeal(g1, ts) ==
    LET a == AfterDeal(g1, ts) IN Out(g1, a.timers, "dealt", a.events, <<>>)

\* ------------------------------------------------------ timer callbacks
\* the callback of the turn timer; ts the timers still pending
TurnTimerCallback(g, ts, currentPlayer) ==
    LET legalCards == GetLegalCards(g, currentPlayer)
        \* the sort is in place: it reorders the hand when the legal cards
        \* are the hand array itself
        g0 == IF LegalIsHand(g, currentPlayer)
              THEN [g EXCEPT !.hands[currentPlayer] = sortByRank(@)]
              ELSE g
        lowestCard == sortByRank(legalCards)[1]
        r == PlayCard(g0, currentPlayer, lowestCard)
    IN IF g.phase # "playing" \/ g.currentPlayer # currentPlayer
       THEN Out(g, ts, "stale", <<>>, <<>>)
       ELSE IF Len(legalCards) = 0 THEN Out(g, ts, "noLegalCards", <<>>, <<>>)
       ELSE IF ~r.result.success THEN Out(g0, ts, "refused", <<"autoPlay">>, <<>>)
       ELSE LET a == AfterPlay(g0, r, ts, AutoTrickEndDelay) IN
            Out(r.game, a.timers, "played", <<"autoPlay">> \o a.events, WonBy(r))

\* the pass timer passing for every seat, the seats that have passed too
RECURSIVE AutoPassAll(_, _, _)
AutoPassAll(g, seat, pick) ==
    IF seat > 3 THEN g
    ELSE IF g.phase = "passing"
    THEN AutoPassAll(
            HeartsSubmitPass(g, seat, [i \in 1 .. 3 |-> g.hands[seat][pick[seat][i]]]).game,
            seat + 1, pick)
    ELSE AutoPassAll(g, seat + 1, pick)

\* the seats the pass timer passes for, from seat on: the first three cards
\* of a shuffled copy of the hand, the cards at the positions pick[seat]
RECURSIVE AutoPassFrom(_, _, _)
AutoPassFrom(g, seat, pick) ==
    IF seat > 3 THEN g
    ELSE IF seat \notin DOMAIN g.passes /\ g.phase = "passing"
    THEN AutoPassFrom(
            HeartsSubmitPass(g, seat, [i \in 1 .. 3 |-> g.hands[seat][pick[seat][i]]]).game,
            seat + 1, pick)
    ELSE AutoPassFrom(g, seat + 1, pick)

\* the callback of the pass timer; pick[seat] the three hand positions drawn
\* for a seat
PassTimerCallback(g, ts, pick) ==
    IF g.phase # "passing" THEN Out(g, ts, "stale", <<>>, <<>>)
    ELSE LET g1 == AutoPassFrom(g, 0, pick) IN
         IF g1.phase = "playing"
         THEN Out(g1, setTimeout(ts, "autoTwo", ExchangeDelay, NoSeat, NoResult),
                  "passed", <<"autoPassSubmitted", "cardsReceived">>, <<>>)
         ELSE Out(g1, ts, "passed", <<"autoPassSubmitted">>, <<>>)

\* the callback of the select timer; contractName and trumpSuit the random
\* draws among all the penalties and all the suits
SelectTimerCallback(g, ts, contractName, trumpSuit) ==
    IF g.gameType # "king" \/ g.phase # "selecting" THEN Out(g, ts, "stale", <<>>, <<>>)
    ELSE LET selectorSeat == g.selectorSeat
             r == IF g.contractsUsed[selectorSeat].penalties < PenaltyQuota
                  THEN KingSelectContract(g, selectorSeat, "penalty", contractName,
                                          UNDEFINED)
                  ELSE KingSelectContract(g, selectorSeat, "trump", UNDEFINED, trumpSuit)
         IN IF r.result.success
            THEN LET st == startTurnTimer(r.game, ts) IN
                 Out(r.game, st.timers, "selected",
                     <<"contractSelected", "updateGame">> \o st.events, <<>>)
            ELSE Out(g, ts, "failed", <<>>, <<>>)

\* autoPlayTwoOfClubs(table), delayed after a deal or an exchange
autoPlayTwoOfClubs(g, ts) ==
    LET r == PlayCard(g, g.currentPlayer, Card("clubs", "2")) IN
    IF g.phase # "playing" \/ g.tricksPlayed # 0 \/ Len(g.currentTrick) # 0
    THEN Out(g, ts, "stale", <<>>, <<>>)
    ELSE IF ~r.result.success THEN Out(g, ts, "refused", <<>>, <<>>)
    ELSE LET st == startTurnTimer(r.game, ts) IN
         Out(r.game, st.timers, "played",
             <<"autoPlay", "cardPlayed", "updateGame">> \o st.events, <<>>)

\* the delayed callback of a completed trick: trickEnd, then
\* handleKingGameEnd, handleHeartsRoundEnd or the delayed continuation
TrickEndCallback(g, ts, result) ==
    LET endEvent == IF g.gameType = "king" THEN "kingGameEnd" ELSE "roundEnd" IN
    IF result.complete /\ result.over
    THEN Out(g, ts, "over", <<"trickEnd", endEvent, "gameEnd">>, <<>>)
    ELSE IF result.complete
    THEN Out(g,
             IF g.gameType = "king"
             THEN setTimeout(ts, "kingNext", KingNextGameDelay, NoSeat, NoResult)
             ELSE setTimeout(ts, "heartsNext", HeartsNextRoundDelay, NoSeat, NoResult),
             "complete", <<"trickEnd", endEvent>>, <<>>)
    ELSE Out(g, setTimeout(ts, "continue", ContinueDelay, NoSeat, NoResult),
             "continue", <<"trickEnd">>, <<>>)

\* the winners handleHeartsRoundEnd announces in gameEnd: result.gameWinner
GameEndWinners(result) == {result.gameWinner}

\* the continuation 2 s after trickEnd: updateGame and the next turn timer
ContinueCallback(g, ts) ==
    LET st == startTurnTimer(g, ts) IN
    Out(g, st.timers, "updated", <<"updateGame">> \o st.events, <<>>)

\* ------------------------------------------------------ the table's steps
\* The events the model's clients send.  An event that leaves the table as it
\* found it is no step; one seat that may act and one that may not stand for
\* the four.
Senders(seat) == {seat, (seat + 1) % 4}

\* the cards a client sends: the lowest legal card of the seat to play, a card
\* that is not legal, no card
ClientCards(g) ==
    LET legal == IF g.phase = "playing" THEN GetLegalCards(g, g.currentPlayer) ELSE <<>>
        illegal == AllCards \ SeqToSet(legal)
    IN (IF Len(legal) > 0 THEN {sortByRank(legal)[1]} ELSE {})
       \cup {CHOOSE c \in illegal : TRUE} \cup {UndefinedCard}

\* the contracts a client sends: <<contractType, contractName, trumpSuit>>
ClientContracts ==
    { <<"penalty", "el", UNDEFINED>>,
      <<"penalty", "bogus", UNDEFINED>>, <<"penalty", UNDEFINED, UNDEFINED>>,
      <<"trump", UNDEFINED, "spades">>, <<"trump", UNDEFINED, UNDEFINED>>,
      <<"bogus", UNDEFINED, UNDEFINED>> }

\* the passes a client sends: the first seat as PassInputs, the others three
\* cards of the hand
ClientPasses(g, seat) ==
    IF seat = 0 THEN PassInputs(g, seat)
    ELSE IF Len(g.hands[seat]) < 3 THEN {}
    ELSE { <<g.hands[seat][1], g.hands[seat][2], g.hands[seat][3]>> }

\* the table after a handler or a callback that left h
Leaves(h) ==
    /\ Len(h.timers) <= MaxPending
    /\ game' = h.game
    /\ timers' = h.timers
    /\ trickLog' = trickLog \o h.won

Changes(h) == h.game # game \/ h.timers # timers

PlayCardEvent ==
    /\ \E seat \in Senders(game.currentPlayer) : \E card \in ClientCards(game) :
          LET h == OnPlayCard(game, timers, seat, card) IN
          Changes(h) /\ Leaves(h)
    /\ UNCHANGED <<rematchVotes, lobbyVars>>

SelectContractEvent ==
    /\ game.gameType = "king"
    /\ \E seat \in Senders(game.selectorSeat) : \E c \in ClientContracts :
          LET h == OnSelectContract(game, timers, seat, c[1], c[2], c[3]) IN
          Changes(h) /\ Leaves(h)
    /\ UNCHANGED <<rematchVotes, lobbyVars>>

SubmitPassEvent ==
    /\ game.gameType = "hearts"
    /\ \E seat \in Seats : \E cards \in ClientPasses(game, seat) :
          LET h == OnSubmitPass(game, timers, seat, cards) IN
          Changes(h) /\ Leaves(h)
    /\ UNCHANGED <<rematchVotes, lobbyVars>>

\* the deals left to the table
MoreDeals(g) ==
    IF g.gameType = "king" THEN g.gameNumber < MaxGames ELSE g.roundNumber < MaxRounds

\* startNextGame() or startNextRound(), by game type
StartNext(g, k) ==
    IF g.gameType = "king" THEN KingStartNextGame(g, k) ELSE HeartsStartNextRound(g, k)

\* socket.on('nextRound') as the handler runs it, whatever the phase
OnNextRound(g, ts, k) == OnDeal(StartNext(g, k), ts)

\* socket.on('nextRound'): the handler checks neither the phase nor the
\* sender; the clients send it when a round or a game has ended
NextRoundEvent ==
    /\ game.phase \in {"roundEnd", "gameEnd"}
    /\ MoreDeals(game)
    /\ \E k \in ShuffleIds :
          LET h == OnDeal(StartNext(game, k), timers) IN
          /\ Len(h.timers) <= MaxPending
          /\ game' = h.game
          /\ timers' = h.timers
    /\ trickLog' = <<>>
    /\ UNCHANGED <<rematchVotes, lobbyVars>>

\* new KingGame() or new HeartsGame(table.endingScore), dealt
NewGame(g, k) ==
    IF g.gameType = "king" THEN KingDeal(NewKingGame(0), k)
    ELSE HeartsDeal(NewHeartsGame(g.endingScore), k)

\* the gameOver of a Hearts round's result, the partyOver of a King game's
GameOver(g) ==
    IF g.gameType = "king" THEN g.phase = "gameEnd" /\ g.gameNumber >= PartyGames
    ELSE g.phase = "roundEnd" /\ \E s \in Seats : g.cumulativeScores[s] >= g.endingScore

\* socket.on('rematch') as the handler runs it, whatever the phase: the vote
\* of the sender's seat is stored and, with four votes that are all yes, a new
\* engine is constructed and dealt
OnRematch(g, ts, votes, seat, vote, k) ==
    LET votes1 == SetKey(votes, seat, vote) IN
    IF Cardinality(DOMAIN votes1) = 4 /\ \A s \in DOMAIN votes1 : votes1[s]
    THEN LET h == OnDeal(NewGame(g, k), ts) IN
         [game |-> h.game, timers |-> h.timers, votes |-> NoVotes,
          outcome |-> "rematch", events |-> <<"rematchStatus">> \o h.events]
    ELSE [game |-> g, timers |-> ts, votes |-> votes1,
          outcome |-> "voted", events |-> <<"rematchStatus">>]

\* the seats from seat on vote yes, one rematch event each
RECURSIVE VoteFrom(_, _, _, _, _)
VoteFrom(g, ts, votes, seat, k) ==
    IF seat > 3 THEN [game |-> g, timers |-> ts, votes |-> votes]
    ELSE LET h == OnRematch(g, ts, votes, seat, TRUE, k) IN
         VoteFrom(h.game, h.timers, h.votes, seat + 1, k)

\* socket.on('rematch'): the handler checks no phase; the clients vote once
\* the game is over, here in the order of the seats
RematchEvent ==
    /\ GameOver(game)
    /\ \E seat \in {Cardinality(DOMAIN rematchVotes) % 4} : \E vote \in {TRUE} : \E k \in ShuffleIds :
          LET h == OnRematch(game, timers, rematchVotes, seat, vote, k) IN
          IF h.outcome = "rematch"
          THEN /\ Len(h.timers) <= MaxPending
               /\ game' = h.game
               /\ timers' = h.timers
               /\ rematchVotes' = h.votes
               /\ trickLog' = <<>>
          ELSE /\ h.votes # rematchVotes
               /\ rematchVotes' = h.votes
               /\ UNCHANGED <<game, timers, trickLog>>
    /\ UNCHANGED lobbyVars

TurnTimerFires ==
    /\ \E n \in 1 .. Len(timers) :
          /\ timers[n].kind = "turn"
          /\ Due(timers, n)
          /\ Leaves(TurnTimerCallback(game, Elapse(timers, n), timers[n].seat))
    /\ UNCHANGED <<rematchVotes, lobbyVars>>

\* the warning timer armed by startTurnTimer expires: timerWarning, if the
\* seat is still to play
TurnWarningFires ==
    /\ \E n \in 1 .. Len(timers) :
          /\ timers[n].kind = "turnWarning"
          /\ Due(timers, n)
          /\ timers' = Elapse(timers, n)
    /\ UNCHANGED <<game, trickLog, rematchVotes, lobbyVars>>

\* the draws of the pass timer: for each seat without a pass three different
\* positions of a hand, in the order of the hand
PassPicks(g) ==
    {pick \in [Seats -> {p \in [1 .. 3 -> 1 .. Max(3, Len(g.hands[0]))] :
                            p[1] < p[2] /\ p[2] < p[3]}] :
        \* nothing is drawn for a seat that has passed
        \A seat \in DOMAIN g.passes : pick[seat] = <<1, 2, 3>>}

PassTimerFires ==
    /\ \E n \in 1 .. Len(timers) :
          /\ timers[n].kind = "pass"
          /\ Due(timers, n)
          /\ \E pick \in PassPicks(game) :
                Leaves(PassTimerCallback(game, Elapse(timers, n), pick))
    /\ UNCHANGED <<rematchVotes, lobbyVars>>

\* the draws of the select timer that the model follows
DrawnPenalties == {"el", "kupa"}
DrawnSuits == {"spades"}

SelectTimerFires ==
    /\ \E n \in 1 .. Len(timers) :
          /\ timers[n].kind = "select"
          /\ Due(timers, n)
          /\ \E contractName \in DrawnPenalties : \E trumpSuit \in DrawnSuits :
                Leaves(SelectTimerCallback(game, Elapse(timers, n), contractName,
                                           trumpSuit))
    /\ UNCHANGED <<rematchVotes, lobbyVars>>

AutoTwoFires ==
    /\ \E n \in 1 .. Len(timers) :
          /\ timers[n].kind = "autoTwo"
          /\ Due(timers, n)
          /\ Leaves(autoPlayTwoOfClubs(game, Elapse(timers, n)))
    /\ UNCHANGED <<rematchVotes, lobbyVars>>

TrickEndFires ==
    /\ \E n \in 1 .. Len(timers) :
          /\ timers[n].kind = "trickEnd"
          /\ Due(timers, n)
          /\ LET h == TrickEndCallback(game, Elapse(timers, n), timers[n].result) IN
             /\ Leaves(h)
             /\ rematchVotes' = IF h.outcome = "over" THEN NoVotes ELSE rematchVotes
    /\ UNCHANGED lobbyVars

ContinueFires ==
    /\ \E n \in 1 .. Len(timers) :
          /\ timers[n].kind = "continue"
          /\ Due(timers, n)
          /\ Leaves(ContinueCallback(game, Elapse(timers, n)))
    /\ UNCHANGED <<rematchVotes, lobbyVars>>

\* the auto-advance of handleHeartsRoundEnd and handleKingGameEnd
AutoAdvanceFires ==
    /\ \E n \in 1 .. Len(timers) :
          /\ timers[n].kind \in {"heartsNext", "kingNext"}
          /\ Due(timers, n)
          /\ LET ts == Elapse(timers, n)
                 endPhase == IF timers[n].kind = "kingNext" THEN "gameEnd" ELSE "roundEnd"
             IN IF game.phase # endPhase
                THEN /\ timers' = ts
                     /\ UNCHANGED <<game, trickLog>>
                ELSE /\ MoreDeals(game)
                     /\ \E k \in ShuffleIds :
                          LET h == OnDeal(StartNext(game, k), ts) IN
                          /\ Len(h.timers) <= MaxPending
                          /\ game' = h.game
                          /\ timers' = h.timers
                     /\ trickLog' = <<>>
    /\ UNCHANGED <<rematchVotes, lobbyVars>>

TableNext ==
    \/ PlayCardEvent
    \/ SelectContractEvent
    \/ SubmitPassEvent
    \/ NextRoundEvent
    \/ RematchEvent
    \/ TurnTimerFires
    \/ TurnWarningFires
    \/ PassTimerFires
    \/ SelectTimerFires
    \/ AutoTwoFires
    \/ TrickEndFires
    \/ ContinueFires
    \/ AutoAdvanceFires

SpecTable == TableInit /\ [][TableNext]_vars

\* ------------------------------------------------------ the registry
\* The tables Map, the closures of the connections and the pending 60 s
\* callbacks.  The cleanup timers and the sweep interval all last 60 s, so the
\* callbacks expire in the order they were armed: cleanups is that queue.  The
\* engine of a started table is not followed here, only that table.game is set.
\* The clients follow the lobby's protocol: a client creates, joins or
\* spectates a table when it is at none, and a player leaves with leaveTable, a
\* spectator with leaveSpectate.
CleanupDelay == 60000
SweepInterval == 60000

SocketIds == 1 .. NumSockets
\* the words generateTableId draws from
TableIds == 1 .. NumTableIds
NoTable == 0
NoTimer == 0
NoPlayer == [id |-> 0, seat |-> NoSeat, connected |-> FALSE]
NoEngine == [gameType |-> "none", phase |-> "none"]

\* new Table(id, gameType, options)
NewTable ==
    [players |-> <<>>, spectators |-> <<>>, inGame |-> FALSE, cleanupTimer |-> NoTimer]

\* the queue without the callback that clearTimeout(handle) cancels
clearCleanupTimer(q, handle) ==
    SelectSeq(q, LAMBDA e : e.handle = NoTimer \/ e.handle # handle)

\* a timer handle that no pending callback and no table holds
NewHandle(ts, q) ==
    CHOOSE h \in 1 .. (Len(q) + Cardinality(DOMAIN ts) + 1) :
        /\ \A n \in 1 .. Len(q) : q[n].handle # h
        /\ \A id \in DOMAIN ts : ts[id].cleanupTimer # h

\* Table.getNextSeat()
getNextSeat(t) ==
    LET takenSeats == {t.players[n].seat : n \in 1 .. Len(t.players)} IN
    IF \E i \in 0 .. (TableSeats - 1) : i \notin takenSeats
    THEN CHOOSE i \in 0 .. (TableSeats - 1) :
             i \notin takenSeats /\ \A j \in 0 .. (i - 1) : j \in takenSeats
    ELSE NoSeat

\* Table.hasDisconnectedSeat()
hasDisconnectedSeat(t) ==
    t.inGame /\ \E n \in 1 .. Len(t.players) : ~t.players[n].connected

\* Table.addPlayer(socketId, name); the timer it clears is cleared by the
\* handler's step
addPlayer(t, socketId) ==
    IF Len(t.players) >= TableSeats \/ t.inGame THEN [success |-> FALSE, table |-> t]
    ELSE [success |-> TRUE,
          table |-> [t EXCEPT !.players = Append(@, [id |-> socketId,
                                                       seat |-> getNextSeat(t),
                                                       connected |-> TRUE]),
                              !.cleanupTimer = NoTimer]]

\* a takeover that rebinds the first player record without looking at
\* connected
takeOverFirstSeat(t, socketId) ==
    IF \A n \in 1 .. Len(t.players) : t.players[n].connected
    THEN [success |-> FALSE, table |-> t]
    ELSE [success |-> TRUE,
          seat |-> t.players[1].seat,
          table |-> [t EXCEPT !.players[1] = [id |-> socketId, seat |-> @.seat,
                                               connected |-> TRUE],
                              !.cleanupTimer = NoTimer]]

\* Table.takeOverSeat(socketId, name)
takeOverSeat(t, socketId) ==
    IF \A n \in 1 .. Len(t.players) : t.players[n].connected
    THEN [success |-> FALSE, table |-> t]
    ELSE LET n == CHOOSE n \in 1 .. Len(t.players) :
                      /\ ~t.players[n].connected
                      /\ \A m \in 1 .. (n - 1) : t.players[m].connected
         IN [success |-> TRUE,
             seat |-> t.players[n].seat,
             table |-> [t EXCEPT !.players[n] = [id |-> socketId, seat |-> @.seat,
                                                  connected |-> TRUE],
                                 !.cleanupTimer = NoTimer]]

\* Table.removePlayer(socketId)
removePlayer(t, socketId) ==
    IF \A n \in 1 .. Len(t.players) : t.players[n].id # socketId
    THEN [player |-> NoPlayer, table |-> t]
    ELSE LET playerIndex == CHOOSE n \in 1 .. Len(t.players) :
                                /\ t.players[n].id = socketId
                                /\ \A m \in 1 .. (n - 1) : t.players[m].id # socketId
         IN IF t.inGame
            THEN [player |-> [t.players[playerIndex] EXCEPT !.connected = FALSE],
                  table |-> [t EXCEPT !.players[playerIndex].connected = FALSE]]
            ELSE [player |-> t.players[playerIndex],
                  table |-> [t EXCEPT !.players =
                                 SubSeq(@, 1, playerIndex - 1)
                                 \o SubSeq(@, playerIndex + 1, Len(@))]]

\* Table.removeSpectator(socketId)
removeSpectator(t, socketId) ==
    IF \A n \in 1 .. Len(t.spectators) : t.spectators[n] # socketId THEN t
    ELSE LET index == CHOOSE n \in 1 .. Len(t.spectators) :
                          /\ t.spectators[n] = socketId
                          /\ \A m \in 1 .. (n - 1) : t.spectators[m] # socketId
         IN [t EXCEPT !.spectators = SubSeq(@, 1, index - 1)
                                     \o SubSeq(@, index + 1, Len(@))]

\* table.players.length === 0 only
NoneSeated(t) == Len(t.players) = 0

\* table.players.length === 0 || table.players.every(p => !p.connected)
AllGone(t) == \A n \in 1 .. Len(t.players) : ~t.players[n].connected

\* the registry without the table tableId: tables.delete(tableId)
DeleteTable(ts, tableId) == [id \in (DOMAIN ts) \ {tableId} |-> ts[id]]

\* what a tables.delete that removed a table leaves in the log: the table,
\* the callback that removed it and whether a seated player was connected
Destroyed(ts, tableId, by) ==
    [id |-> tableId, by |-> by, occupied |-> ~AllGone(ts[tableId])]

\* ------------------------------------------- joinTable with the table's game
\* table.passTimeoutAt and table.selectTimeoutAt hold the deadline of the pass
\* and of the select timer from the moment it is armed until it is cleared;
\* here the time that remains, or NoDeadline when none is still to come
NoDeadline == 0 - 1
Deadline(ts, kind) ==
    IF \E n \in 1 .. Len(ts) : ts[n].kind = kind
    THEN ts[CHOOSE n \in 1 .. Len(ts) : ts[n].kind = kind].remaining
    ELSE NoDeadline
passTimeoutAt(ts) == Deadline(ts, "pass")
selectTimeoutAt(ts) == Deadline(ts, "select")
\* table.turnTimeoutAt: sendGameStateToPlayer reads it and nothing assigns it
turnTimeoutAt(ts) == NoDeadline

\* what one call of sendGameStateToPlayer sends: the events in order, the hand
\* and the fields their payloads carry, and the deadline of the timer event
Sent(threw, events, hand, carries, timeoutAt) ==
    [threw |-> threw, events |-> events, hand |-> hand, carries |-> carries,
     timeoutAt |-> timeoutAt]
NothingSent == Sent(FALSE, <<>>, <<>>, {}, NoDeadline)

sendGameStateToPlayer(g, ts, seat) ==
    IF g.gameType = "king"
    THEN IF g.phase = "selecting"
         THEN Sent(FALSE, <<"contractSelectionStart">>, g.hands[seat],
                   {"hand", "selector", "availableContracts", "gameNumber",
                    "contractsUsed"}
                   \cup (IF selectTimeoutAt(ts) # NoDeadline THEN {"timeoutAt"} ELSE {}),
                   selectTimeoutAt(ts))
         \* table.game.currentContract is undefined on a KingGame: the payload's
         \* currentContract.name throws before anything is emitted
         ELSE IF g.phase = "playing" THEN Sent(TRUE, <<>>, <<>>, {}, NoDeadline)
         ELSE NothingSent
    ELSE IF g.phase = "passing"
    THEN Sent(FALSE,
              <<"startGame">> \o (IF passTimeoutAt(ts) # NoDeadline
                                  THEN <<"passTimerStart">> ELSE <<>>),
              g.hands[seat],
              {"hand", "passDirection", "phase", "currentPlayer"}
              \cup (IF passTimeoutAt(ts) # NoDeadline THEN {"timeoutAt"} ELSE {}),
              passTimeoutAt(ts))
    ELSE IF g.phase = "playing"
    THEN Sent(FALSE,
              <<"startGame", "updateGame">> \o (IF turnTimeoutAt(ts) # NoDeadline
                                                THEN <<"turnTimerStart">> ELSE <<>>),
              g.hands[seat],
              {"hand", "passDirection", "phase", "currentPlayer", "currentTrick",
               "scores", "legalCards"}
              \cup (IF turnTimeoutAt(ts) # NoDeadline THEN {"timeoutAt"} ELSE {}),
              turnTimeoutAt(ts))
    ELSE NothingSent

\* a payload without playerName, or with a blank one
NoName == ""

\* socket.on('joinTable') on table t with engine g and pending timers ts;
\* dealt is the engine Table.startGame() constructs and deals when the join
\* fills the table
OnJoinTable(t, g, ts, socketId, playerName, dealt) ==
    LET added == addPlayer(t, socketId)
        takeover == ~added.success /\ hasDisconnectedSeat(t)
        result == IF takeover THEN takeOverSeat(t, socketId) ELSE added
        left(t1, g1, ts1, outcome, events, sent) ==
            [table |-> t1, game |-> g1, timers |-> ts1, outcome |-> outcome,
             events |-> events, sent |-> sent]
    IN IF playerName = NoName THEN left(t, g, ts, "rejected", <<"error">>, NothingSent)
       ELSE IF ~result.success THEN left(t, g, ts, "rejected", <<"error">>, NothingSent)
       ELSE IF takeover
       THEN LET sent == sendGameStateToPlayer(g, ts, result.seat) IN
            IF sent.threw
            THEN left(result.table, g, ts, "threw", <<"tableJoined", "updatePlayers">>, sent)
            ELSE left(result.table, g, ts, "takeover",
                      <<"tableJoined", "updatePlayers">> \o sent.events \o <<"tablesList">>,
                      sent)
       ELSE IF Len(result.table.players) = TableSeats
       THEN LET h == OnDeal(dealt, ts) IN
            left([result.table EXCEPT !.inGame = TRUE], h.game, h.timers, "started",
                 <<"tableJoined", "updatePlayers">> \o h.events \o <<"tablesList">>,
                 NothingSent)
       ELSE left(result.table, g, ts, "joined",
                 <<"tableJoined", "updatePlayers", "tablesList">>, NothingSent)

\* The players of a table whose game has started, as joinTable may find them:
\* socket s + 1 joined into seat s, in the order of the seats or with the first
\* two the other way round (a player left and another joined before the game
\* started); any of them disconnected since.
SeatOrders == {<<0, 1, 2, 3>>, <<1, 0, 2, 3>>}
StartedTables ==
    { [players |-> [n \in 1 .. 4 |-> [id |-> order[n] + 1, seat |-> order[n],
                                       connected |-> n \notin gone]],
       spectators |-> <<>>, inGame |-> TRUE, cleanupTimer |-> NoTimer] :
        order \in SeatOrders, gone \in SUBSET (1 .. 4) }
\* the sockets that send joinTable: a new connection, and the socket of seat 0
Joiners == {5, 1}
Gone(t) == {n \in 1 .. Len(t.players) : ~t.players[n].connected}

\* the server is listening: the sweep interval is armed, NumSockets clients
\* have connected
LobbyInit ==
    /\ game = NoEngine
    /\ trickLog = <<>>
    /\ TableIdle
    /\ tables = <<>>
    /\ sockets = [s \in SocketIds |->
                     [connected |-> TRUE, currentTableId |-> NoTable,
                      isSpectating |-> FALSE]]
    /\ cleanups = <<[kind |-> "sweep", socket |-> 0, handle |-> NoTimer]>>
    /\ destroyed = <<>>

\* socket.on('createTable')
CreateTableEvent ==
    /\ \E s \in SocketIds : \E tableId \in TableIds :
          /\ sockets[s].connected
          /\ sockets[s].currentTableId = NoTable
          /\ tableId \notin DOMAIN tables
          /\ tables' = SetKey(tables, tableId, addPlayer(NewTable, s).table)
          /\ sockets' = [sockets EXCEPT ![s].currentTableId = tableId]
    /\ UNCHANGED <<cleanups, destroyed, engineVars, tableVars>>

\* socket.on('joinTable'): addPlayer, or takeOverSeat when the game runs and a
\* seat is disconnected; the fourth player starts the game
JoinTableEvent ==
    /\ \E s \in SocketIds : \E tableId \in DOMAIN tables :
          LET table == tables[tableId]
              added == addPlayer(table, s)
              takeover == ~added.success /\ hasDisconnectedSeat(table)
              result == IF takeover THEN takeOverSeat(table, s) ELSE added
              joined == result.table
          IN /\ sockets[s].connected
             /\ sockets[s].currentTableId = NoTable
             /\ result.success
             /\ tables' = [tables EXCEPT ![tableId] =
                              IF Len(joined.players) = TableSeats /\ ~takeover
                              THEN [joined EXCEPT !.inGame = TRUE]
                              ELSE joined]
             /\ cleanups' = clearCleanupTimer(cleanups, table.cleanupTimer)
             /\ sockets' = [sockets EXCEPT ![s].currentTableId = tableId]
    /\ UNCHANGED <<destroyed, engineVars, tableVars>>

\* socket.on('leaveTable'): the callback it arms reads currentTableId when it
\* runs
LeaveTableEvent ==
    /\ \E s \in SocketIds :
          LET currentTableId == sockets[s].currentTableId
              removed == removePlayer(tables[currentTableId], s)
              handle == NewHandle(tables, cleanups)
          IN /\ sockets[s].connected
             /\ ~sockets[s].isSpectating
             /\ currentTableId # NoTable
             /\ currentTableId \in DOMAIN tables
             /\ IF removed.player # NoPlayer /\ AllGone(removed.table)
                THEN /\ tables' = [tables EXCEPT ![currentTableId] =
                                      [removed.table EXCEPT !.cleanupTimer = handle]]
                     /\ cleanups' = Append(cleanups, [kind |-> "leave", socket |-> s,
                                                      handle |-> handle])
                ELSE /\ tables' = [tables EXCEPT ![currentTableId] = removed.table]
                     /\ UNCHANGED cleanups
             /\ sockets' = [sockets EXCEPT ![s].currentTableId = NoTable]
    /\ Len(cleanups') <= MaxCleanups
    /\ UNCHANGED <<destroyed, engineVars, tableVars>>

\* socket.on('spectateTable')
SpectateTableEvent ==
    /\ \E s \in SocketIds : \E tableId \in DOMAIN tables :
          /\ sockets[s].connected
          /\ sockets[s].currentTableId = NoTable
          /\ tables[tableId].inGame
          /\ ~Includes(tables[tableId].spectators, s)
          /\ tables' = [tables EXCEPT ![tableId].spectators = Append(@, s)]
          /\ sockets' = [sockets EXCEPT ![s].currentTableId = tableId,
                                        ![s].isSpectating = TRUE]
    /\ UNCHANGED <<cleanups, destroyed, engineVars, tableVars>>

\* socket.on('leaveSpectate')
LeaveSpectateEvent ==
    /\ \E s \in SocketIds :
          LET currentTableId == sockets[s].currentTableId IN
          /\ sockets[s].connected
          /\ currentTableId # NoTable
          /\ sockets[s].isSpectating
          /\ tables' = IF currentTableId \in DOMAIN tables
                       THEN [tables EXCEPT ![currentTableId] = removeSpectator(@, s)]
                       ELSE tables
          /\ sockets' = [sockets EXCEPT ![s].currentTableId = NoTable,
                                        ![s].isSpectating = FALSE]
    /\ UNCHANGED <<cleanups, destroyed, engineVars, tableVars>>

\* socket.on('disconnect')
DisconnectEvent ==
    /\ \E s \in SocketIds :
          LET currentTableId == sockets[s].currentTableId
              removed == removePlayer(tables[currentTableId], s)
              handle == NewHandle(tables, cleanups)
          IN /\ sockets[s].connected
             /\ sockets' = [sockets EXCEPT ![s].connected = FALSE]
             /\ IF currentTableId = NoTable \/ currentTableId \notin DOMAIN tables
                THEN UNCHANGED <<tables, cleanups>>
                ELSE IF sockets[s].isSpectating
                THEN /\ tables' = [tables EXCEPT ![currentTableId] = removeSpectator(@, s)]
                     /\ UNCHANGED cleanups
                ELSE IF removed.player # NoPlayer /\ AllGone(removed.table)
                THEN /\ tables' = [tables EXCEPT ![currentTableId] =
                                      [removed.table EXCEPT !.cleanupTimer = handle]]
                     /\ cleanups' = Append(cleanups, [kind |-> "disconnect",
                                                      socket |-> s, handle |-> handle])
                ELSE /\ tables' = [tables EXCEPT ![currentTableId] = removed.table]
                     /\ UNCHANGED cleanups
    /\ Len(cleanups') <= MaxCleanups
    /\ UNCHANGED <<destroyed, engineVars, tableVars>>

\* the callback armed by leaveTable or disconnect runs:
\* tables.delete(currentTableId), with the value the closure holds by then
CleanupTimerFires ==
    /\ Len(cleanups) > 0
    /\ Head(cleanups).kind \in {"leave", "disconnect"}
    /\ LET currentTableId == sockets[Head(cleanups).socket].currentTableId IN
       IF currentTableId \in DOMAIN tables
       THEN /\ tables' = DeleteTable(tables, currentTableId)
            /\ destroyed' = <<Destroyed(tables, currentTableId, Head(cleanups).kind)>>
       ELSE UNCHANGED <<tables, destroyed>>
    \* the callback armed by disconnect clears the three timers of the table
    \* that was left; the one armed by leaveTable clears none
    /\ timers' = IF Head(cleanups).kind = "disconnect"
                 THEN clearSelectTimer(clearPassTimer(clearTurnTimer(timers)))
                 ELSE timers
    /\ cleanups' = Tail(cleanups)
    /\ UNCHANGED <<sockets, engineVars, rematchVotes>>

\* the tables the sweep deletes, in the order of their ids
RECURSIVE SweepLog(_, _)
SweepLog(ts, ids) ==
    IF ids = {} THEN <<>>
    ELSE LET id == CHOOSE i \in ids : \A j \in ids : i <= j IN
         <<Destroyed(ts, id, "sweep")>> \o SweepLog(ts, ids \ {id})

\* the setInterval callback runs and stays armed
SweepFires ==
    /\ Len(cleanups) > 0
    /\ Head(cleanups).kind = "sweep"
    /\ LET gone == {id \in DOMAIN tables : AllGone(tables[id])} IN
       /\ tables' = [id \in (DOMAIN tables) \ gone |-> tables[id]]
       /\ destroyed' = IF gone = {} THEN destroyed ELSE SweepLog(tables, gone)
       \* clearTurnTimer, clearPassTimer and clearSelectTimer of a table it deletes
       /\ timers' = IF gone = {} THEN timers
                    ELSE clearSelectTimer(clearPassTimer(clearTurnTimer(timers)))
    /\ cleanups' = Append(Tail(cleanups), Head(cleanups))
    /\ UNCHANGED <<sockets, engineVars, rematchVotes>>

LobbyNext ==
    \/ CreateTableEvent
    \/ JoinTableEvent
    \/ LeaveTableEvent
    \/ SpectateTableEvent
    \/ LeaveSpectateEvent
    \/ DisconnectEvent
    \/ CleanupTimerFires
    \/ SweepFires

SpecLobby == LobbyInit /\ [][LobbyNext]_vars

\* the 60 s callbacks run when their time has come
SpecLobbyFair ==
    SpecLobby /\ WF_vars(CleanupTimerFires) /\ WF_vars(SweepFires)

\* ------------------------------------------- the registry, any client
\* The handlers under the conditions the source checks and no other: a
\* connection sends any event, whatever table its closure holds.
\* generateTableId(): the ids it may return.  The loop draws a word until the
\* word is one no table has or 100 words are drawn.  A word no table has ends
\* it at once and is returned as it is.  When 99 draws hit words in use the
\* hundredth word, in use or not, ends it, and is returned with a number
\* appended that is not looked up in the map.
Suffixes == 0 .. (NumSuffixes - 1)
Suffixed(word, n) == 10 * word + n
generateTableId(ts) ==
    (TableIds \ DOMAIN ts)
    \cup (IF TableIds \cap DOMAIN ts = {} THEN {}
          ELSE {Suffixed(word, n) : word \in TableIds, n \in Suffixes})

\* socket.on('createTable'): tables.set(tableId, table) whatever the map holds
AnyCreateTableEvent ==
    /\ \E s \in SocketIds : \E tableId \in generateTableId(tables) :
          /\ sockets[s].connected
          /\ tables' = SetKey(tables, tableId, addPlayer(NewTable, s).table)
          /\ sockets' = [sockets EXCEPT ![s].currentTableId = tableId]
    /\ Cardinality(DOMAIN tables') <= MaxTables
    /\ UNCHANGED <<cleanups, destroyed, engineVars, tableVars>>

\* socket.on('joinTable')
AnyJoinTableEvent ==
    /\ \E s \in SocketIds : \E tableId \in DOMAIN tables :
          LET table == tables[tableId]
              added == addPlayer(table, s)
              takeover == ~added.success /\ hasDisconnectedSeat(table)
              result == IF takeover THEN takeOverSeat(table, s) ELSE added
              joined == result.table
          IN /\ sockets[s].connected
             /\ result.success
             /\ tables' = [tables EXCEPT ![tableId] =
                              IF Len(joined.players) = TableSeats /\ ~takeover
                              THEN [joined EXCEPT !.inGame = TRUE]
                              ELSE joined]
             /\ cleanups' = clearCleanupTimer(cleanups, table.cleanupTimer)
             /\ sockets' = [sockets EXCEPT ![s].currentTableId = tableId]
    /\ UNCHANGED <<destroyed, engineVars, tableVars>>

\* socket.on('leaveTable'): isSpectating is neither read nor written
AnyLeaveTableEvent ==
    /\ \E s \in SocketIds :
          LET currentTableId == sockets[s].currentTableId
              removed == removePlayer(tables[currentTableId], s)
              handle == NewHandle(tables, cleanups)
          IN /\ sockets[s].connected
             /\ currentTableId # NoTable
             /\ currentTableId \in DOMAIN tables
             /\ IF removed.player # NoPlayer /\ AllGone(removed.table)
                THEN /\ tables' = [tables EXCEPT ![currentTableId] =
                                      [removed.table EXCEPT !.cleanupTimer = handle]]
                     /\ cleanups' = Append(cleanups, [kind |-> "leave", socket |-> s,
                                                      handle |-> handle])
                ELSE /\ tables' = [tables EXCEPT ![currentTableId] = removed.table]
                     /\ UNCHANGED cleanups
             /\ sockets' = [sockets EXCEPT ![s].currentTableId = NoTable]
    /\ Len(cleanups') <= MaxCleanups
    /\ UNCHANGED <<destroyed, engineVars, tableVars>>

\* socket.on('spectateTable')
AnySpectateTableEvent ==
    /\ \E s \in SocketIds : \E tableId \in DOMAIN tables :
          /\ sockets[s].connected
          /\ tables[tableId].inGame
          /\ ~Includes(tables[tableId].spectators, s)
          /\ tables' = [tables EXCEPT ![tableId].spectators = Append(@, s)]
          /\ sockets' = [sockets EXCEPT ![s].currentTableId = tableId,
                                        ![s].isSpectating = TRUE]
    /\ UNCHANGED <<cleanups, destroyed, engineVars, tableVars>>

ClientsNext ==
    \/ AnyCreateTableEvent
    \/ AnyJoinTableEvent
    \/ AnyLeaveTableEvent
    \/ AnySpectateTableEvent
    \/ LeaveSpectateEvent
    \/ DisconnectEvent
    \/ CleanupTimerFires
    \/ SweepFires

SpecClients == LobbyInit /\ [][ClientsNext]_vars

\* ------------------------------------------- the ids of the registry
\* The connections create tables and disconnect, and the 60 s
\* callbacks run; the registry holds up to MaxRegistered tables.
RegistryCreateTableEvent ==
    /\ \E s \in SocketIds : \E tableId \in generateTableId(tables) :
          /\ sockets[s].connected
          /\ tables' = SetKey(tables, tableId, addPlayer(NewTable, s).table)
          /\ sockets' = [sockets EXCEPT ![s].currentTableId = tableId]
    /\ Cardinality(DOMAIN tables') <= MaxRegistered
    /\ UNCHANGED <<cleanups, destroyed, engineVars, tableVars>>

RegistryNext ==
    \/ RegistryCreateTableEvent
    \/ DisconnectEvent
    \/ CleanupTimerFires
    \/ SweepFires

SpecRegistry == LobbyInit /\ [][RegistryNext]_vars

\* ------------------------------------------- what the spectators are sent
\* the cards of the tricks a seat took, in the order they were played
RECURSIVE CardsOfTricks(_)
CardsOfTricks(tricks) ==
    IF tricks = <<>> THEN <<>>
    ELSE [n \in 1 .. Len(Head(tricks)) |-> Head(tricks)[n].card]
         \o CardsOfTricks(Tail(tricks))

\* HeartsGame.getPointCardsTaken()
getPointCardsTaken(g) ==
    [i \in Seats |->
        sortHand(SelectSeq(CardsOfTricks(g.tricksTaken[i]),
                           LAMBDA c : c.suit = "hearts" \/ isQueenOfSpades(c)))]

\* KingGame.getPenaltyCardsTaken(); the contract is not null
getPenaltyCardsTaken(g) ==
    LET contractName == g.contract.name
        isPenalty(c) ==
            CASE contractName = "kupa" -> c.suit = "hearts"
              [] contractName = "erkek" -> c.rank = "K" \/ c.rank = "J"
              [] contractName = "kiz" -> c.rank = "Q"
              [] contractName = "rifki" -> c.suit = "hearts" /\ c.rank = "K"
              [] OTHER -> FALSE
        cardsOf(trick) == [n \in 1 .. Len(trick) |-> trick[n].card]
    IN [i \in Seats |->
         LET tricks == g.tricksTaken[i] IN
         IF g.contract.type = "trump" THEN <<>>
         ELSE IF contractName = "el"
         THEN [t \in 1 .. Len(tricks) |-> tricks[t][1].card]
         \* _trick12Cards and _trick13Cards: the last two tricks of the game
         ELSE IF contractName = "sonIki"
         THEN (IF g.trick12Winner = i
               THEN cardsOf(tricks[Len(tricks) - (IF g.trick13Winner = i THEN 1 ELSE 0)])
               ELSE <<>>)
              \o (IF g.trick13Winner = i THEN cardsOf(tricks[Len(tricks)]) ELSE <<>>)
         ELSE SelectSeq(CardsOfTricks(tricks), isPenalty)]

\* a spectator state with every hand in it
buildSpectatorStateFaceUp(g) == [phase |-> g.phase, hands |-> g.hands]

\* buildSpectatorState(table) on a Hearts or King engine; game.trickNumber
\* and game.scores are fields no engine has.  On a King engine without a
\* contract getPenaltyCardsTaken reads null.type and nothing is built.
buildSpectatorState(g) ==
    IF g.gameType = "hearts"
    THEN [ gameType |-> g.gameType, phase |-> g.phase, currentPlayer |-> g.currentPlayer,
           currentTrick |-> g.currentTrick, trickNumber |-> UNDEFINED,
           scores |-> UNDEFINED,
           passDirection |-> g.passDirection, heartsBroken |-> g.heartsBroken,
           roundNumber |-> g.roundNumber, cumulativeScores |-> g.cumulativeScores,
           roundScores |-> g.roundScores, pointCardsTaken |-> getPointCardsTaken(g) ]
    ELSE IF g.contract = NoContract THEN [threw |-> TRUE]
    ELSE [ gameType |-> g.gameType, phase |-> g.phase, currentPlayer |-> g.currentPlayer,
           currentTrick |-> g.currentTrick, trickNumber |-> UNDEFINED,
           scores |-> UNDEFINED,
           currentContract |-> g.contract, selectorSeat |-> g.selectorSeat,
           trumpSuit |-> g.contract.trumpSuit, gameNumber |-> g.gameNumber,
           partyScores |-> UNDEFINED, lastTrickCards |-> g.lastTrick,
           tricksTaken |-> [i \in Seats |-> Len(g.tricksTaken[i])],
           contractHistory |-> g.contractHistory,
           cumulativeScores |-> g.cumulativeScores,
           pointCardsTaken |-> getPenaltyCardsTaken(g) ]

\* SpadesGame.getSpectatorState()
getSpectatorState(g) ==
    [ phase |-> g.phase, roundNumber |-> g.roundNumber, currentTrick |-> g.currentTrick,
      currentPlayer |-> g.currentPlayer, spadesBroken |-> g.spadesBroken,
      bids |-> g.bids, teamTricks |-> g.teamTricks,
      tricksTakenBySeat |-> g.tricksTakenBySeat, roundScores |-> g.roundScores,
      cumulativeScores |-> g.cumulativeScores, bags |-> g.bags,
      lastTrick |-> g.lastTrick, tricksPlayed |-> g.tricksPlayed ]

\* the gameState of spectateJoined and of spectatorUpdate
SpectatorState(g) ==
    IF g.gameType = "spades" THEN getSpectatorState(g) ELSE buildSpectatorState(g)

\* ------------------------------------------- the pass timer of a round
\* A Hearts table dealt hands of four cards in a round with a pass direction,
\* the pass timer armed: the players pass any three cards they hold, or do
\* not, and the timer expires.
PassTimerInit ==
    /\ \E roundNumber \in 1 .. 3 : \E k \in ShuffleIds :
          game = HeartsDealOf([NewHeartsGame(DefaultEndingScore) EXCEPT
                                  !.roundNumber = roundNumber], PassDeck, k)
    /\ trickLog = <<>>
    /\ timers = AfterDeal(game, <<>>).timers
    /\ rematchVotes = NoVotes
    /\ LobbyIdle

\* socket.on('submitPass') with three cards of the hand
HeldPassEvent ==
    /\ game.gameType = "hearts"
    /\ \E seat \in Seats : \E cards \in HeldPasses(game, seat) :
          LET h == OnSubmitPass(game, timers, seat, cards) IN
          Changes(h) /\ Leaves(h)
    /\ UNCHANGED <<rematchVotes, lobbyVars>>

PassTimerNext ==
    \/ HeldPassEvent
    \/ PassTimerFires

SpecPassTimer == PassTimerInit /\ [][PassTimerNext]_vars

\* ------------------------------------------- the players leave a table in play
\* One table whose game has started, with the timers of its deal pending: the
\* connections of seats 0 and 1 are there, those of seats 2 and 3 have
\* disconnected.  Nobody plays: the timers drive the game.
DepartureInit ==
    /\ \E k \in ShuffleIds :
          game \in { HeartsDeal(NewHeartsGame(endingScore), k) :
                        endingScore \in EndingScores }
                   \cup { KingDeal(NewKingGame(0), k) }
    /\ trickLog = <<>>
    /\ timers = AfterDeal(game, <<>>).timers
    /\ rematchVotes = NoVotes
    /\ tables = SetKey(<<>>, 1,
                       [players |-> [n \in 1 .. 4 |->
                                        [id |-> n, seat |-> n - 1,
                                         connected |-> n \in SocketIds]],
                        spectators |-> <<>>, inGame |-> TRUE, cleanupTimer |-> NoTimer])
    /\ sockets = [s \in SocketIds |->
                     [connected |-> TRUE, currentTableId |-> 1, isSpectating |-> FALSE]]
    /\ cleanups = <<[kind |-> "sweep", socket |-> 0, handle |-> NoTimer]>>
    /\ destroyed = <<>>

DepartureNext ==
    \/ LeaveTableEvent
    \/ DisconnectEvent
    \/ CleanupTimerFires
    \/ SweepFires
    \/ TurnTimerFires
    \/ TurnWarningFires
    \/ PassTimerFires
    \/ SelectTimerFires
    \/ AutoTwoFires
    \/ TrickEndFires
    \/ ContinueFires
    \/ AutoAdvanceFires

SpecDeparture == DepartureInit /\ [][DepartureNext]_vars

\* ============================================================ properties
\* ------------------------------------------------------------ Hearts
\* the cards a Hearts game holds in hands, in the current trick and in the
\* tricks taken
HeartsCardCount(g) ==
    SeqSum([i \in 1 .. 4 |-> Len(g.hands[i - 1])])
    + Len(g.currentTrick)
    + SeqSum([i \in 1 .. 4 |->
          SeqSum([t \in 1 .. Len(g.tricksTaken[i - 1]) |-> Len(g.tricksTaken[i - 1][t])])])

\* C1: in a Hearts round, after any deal, submitPass (with the exchange the
\* fourth pass triggers) and playCard calls, the hand sizes, the current trick
\* and the tricks taken add up to the whole deck.
C1_CardsAccounted ==
    game.gameType = "hearts" => HeartsCardCount(game) = DeckSize

\* C2: in every engine, for the current player in the playing phase, the legal
\* cards are cards of that seat's hand, playCard of a card outside them fails
\* and leaves the game as it was, and playCard of any of them succeeds.
C2_LegalCards ==
    game.phase = "playing" =>
        LET p == game.currentPlayer
            legal == GetLegalCards(game, p)
        IN /\ \A n \in 1 .. Len(legal) : Includes(game.hands[p], legal[n])
           /\ \A card \in AllCards :
                 LET r == PlayCard(game, p, card) IN
                 IF Includes(legal, card) THEN r.result.success
                 ELSE ~r.result.success /\ r.game = game

\* a King game, one trick done, where the player to follow holds cards that
\* may be played and cards that may not
C2_Witness ==
    /\ game.gameType = "king"
    /\ game.phase = "playing"
    /\ Len(trickLog) > 0
    /\ Len(game.currentTrick) > 0
    /\ Len(KingGetLegalCards(game, game.currentPlayer)) > 0
    /\ Len(KingGetLegalCards(game, game.currentPlayer))
          < Len(game.hands[game.currentPlayer])

\* a pass of exactly three distinct cards of the seat's hand
ValidPass(g, seat, cards) ==
    /\ Len(cards) = 3
    /\ \A n \in 1 .. Len(cards) : Includes(g.hands[seat], cards[n])
    /\ \A m, n \in 1 .. Len(cards) : m # n => cards[m] # cards[n]

\* C5: submitPass rejects, without changing any state, every pass that is not
\* exactly three distinct cards of the submitting seat's hand.
C5_BadPassRejected ==
    (game.gameType = "hearts" /\ game.phase = "passing") =>
        \A seat \in Seats : \A cards \in PassInputs(game, seat) :
            ~ValidPass(game, seat, cards) =>
                LET r == HeartsSubmitPass(game, seat, cards) IN
                ~r.result.success /\ r.game = game

\* the seat that receives the pass of giver in round roundNumber
ReceiverInRound(giver, roundNumber) ==
    CASE roundNumber % 4 = 1 -> (giver + 1) % 4
      [] roundNumber % 4 = 2 -> (giver + 3) % 4
      [] roundNumber % 4 = 3 -> (giver + 2) % 4

HeartsAllowed(g, seat) ==
    LET hand == SeqToSet(g.hands[seat])
        leading == g.currentTrick = <<>>
        led == {c \in hand : ~leading /\ c.suit = g.currentTrick[1].card.suit}
        harmless == {c \in hand : c.suit # "hearts" /\ c # [suit |-> "spades", rank |-> "Q"]}
        orAll(S) == IF S # {} THEN S ELSE hand
    IN IF leading /\ g.tricksPlayed = 0
       THEN hand \cap {[suit |-> "clubs", rank |-> "2"]}
       ELSE IF leading
       THEN IF g.heartsBroken THEN hand ELSE orAll({c \in hand : c.suit # "hearts"})
       ELSE IF led # {} THEN led
       ELSE IF g.tricksPlayed = 0 THEN orAll(harmless)
       ELSE hand

\* C26: when a Hearts round comes to its first lead the seat to play holds
\* the two of clubs, and getLegalCards returns exactly: the two of clubs for
\* the first lead; for a later lead no heart unless hearts are broken or
\* nothing else is held; the cards of the led suit for a seat that holds it;
\* any card for a void seat, but on the first trick no heart and no queen of
\* spades unless nothing else is held.
C26_HeartsLegalCards ==
    (game.gameType = "hearts" /\ game.phase = "playing") =>
        /\ (game.tricksPlayed = 0 /\ game.currentTrick = <<>>) =>
              [suit |-> "clubs", rank |-> "2"] \in SeqToSet(game.hands[game.currentPlayer])
        /\ \A seat \in Seats :
              LET legalCards == HeartsGetLegalCards(game, seat) IN
              /\ SeqToSet(legalCards) = HeartsAllowed(game, seat)
              /\ Len(legalCards) = Cardinality(HeartsAllowed(game, seat))

\* the first trick of a round without passes: the seat to play is void in
\* clubs, holds a heart and another card, and may not play the heart
C26_Witness ==
    /\ game.gameType = "hearts"
    /\ game.phase = "playing"
    /\ game.roundNumber = 4
    /\ game.tricksPlayed = 0
    /\ game.currentTrick # <<>>
    /\ LET hand == SeqToSet(game.hands[game.currentPlayer])
           legalCards == SeqToSet(HeartsGetLegalCards(game, game.currentPlayer))
       IN /\ \A c \in hand : c.suit # "clubs"
          /\ \E c \in hand : c.suit = "hearts"
          /\ legalCards # {}
          /\ legalCards # hand
          /\ \A c \in legalCards : c.suit # "hearts"

\* a Hearts engine whose last trick is counted and whose round is to be
\* completed
RoundToComplete(g) ==
    g.gameType = "hearts" /\ g.phase = "playing" /\ g.tricksPlayed = TricksPerRound

\* C17: at the end of a Hearts round the game is over exactly when the highest
\* cumulative score has reached the ending score, and the winners announced
\* are all the seats that share the lowest cumulative score.
C17_GameOverAndWinners ==
    RoundToComplete(game) =>
        \A lastTrickWinner \in Seats :
            LET r == HeartsCompleteRound(game, lastTrickWinner)
                cumulativeScores == r.game.cumulativeScores
                lowest == SetMin({cumulativeScores[s] : s \in Seats})
            IN /\ r.result.gameOver <=>
                     \E s \in Seats : cumulativeScores[s] >= game.endingScore
               /\ r.result.gameOver =>
                     GameEndWinners(r.result) = {s \in Seats : cumulativeScores[s] = lowest}

\* the cumulative scores under option A (the others take the points) and
\* under option B (the shooter takes them)
OptionA(cumulativeScores, shooter) ==
    [s \in Seats |-> IF s = shooter THEN cumulativeScores[s]
                     ELSE cumulativeScores[s] + MoonPoints]
OptionB(cumulativeScores, shooter) ==
    [s \in Seats |-> IF s = shooter THEN cumulativeScores[s] + MoonPoints
                     ELSE cumulativeScores[s]]

Trails(g, seat) == g.cumulativeScores[(seat + 1) % 2] - g.cumulativeScores[seat % 2]

NilPart(bid, tricks) ==
    CASE bid = NilBid -> IF tricks = 0 THEN 50 ELSE 0 - 50
      [] bid = BlindNilBid -> IF tricks = 0 THEN 100 ELSE 0 - 100
      [] OTHER -> 0

\* the sum of the numeric bids of the partners of a team
NumericBids(g, team) ==
    (IF g.bids[team].kind = "number" THEN g.bids[team].n ELSE 0)
    + (IF g.bids[team + 2].kind = "number" THEN g.bids[team + 2].n ELSE 0)

\* the bags a round brings a team
BagsOfRound(g, team) ==
    IF g.teamTricks[team] >= NumericBids(g, team)
    THEN g.teamTricks[team] - NumericBids(g, team) ELSE 0

\* C28: at the end of a Spades round the round score of a team is, for each
\* partner that bid nil or blind_nil, +50 or +100 if the seat took no trick
\* and -50 or -100 if it took one, plus, B being the sum of the partners'
\* numeric bids, 10 B and a point a trick over B if the team took at least B
\* tricks, -10 B if not; bids 3, nil, 4, 2 with team tricks 7 and 6 and no
\* trick for seat 1 give 70 and 74.
C28_RoundScores ==
    RoundToTally(game) =>
        \A lastTrickWinner \in Seats :
            LET r == SpadesCompleteRound(game, lastTrickWinner) IN
            /\ \A team \in 0 .. 1 :
                  r.game.roundScores[team] =
                      NilPart(game.bids[team], game.tricksTakenBySeat[team])
                      + NilPart(game.bids[team + 2], game.tricksTakenBySeat[team + 2])
                      + (IF game.teamTricks[team] >= NumericBids(game, team)
                         THEN 10 * NumericBids(game, team)
                              + (game.teamTricks[team] - NumericBids(game, team))
                         ELSE 0 - 10 * NumericBids(game, team))
            /\ (/\ game.bids = [seat \in Seats |->
                                 <<NumBid(3), NilBid, NumBid(4), NumBid(2)>>[seat + 1]]
                /\ game.teamTricks = TeamScores(7, 6)
                /\ game.tricksTakenBySeat[1] = 0) =>
                  r.game.roundScores = TeamScores(70, 74)

\* the round of the bids 3, nil, 4, 2 over, 70 and 74 scored
C28_Witness ==
    /\ game.gameType = "spades"
    /\ game.phase = "roundEnd"
    /\ game.bids = [seat \in Seats |-> <<NumBid(3), NilBid, NumBid(4), NumBid(2)>>[seat + 1]]
    /\ game.teamTricks = TeamScores(7, 6)
    /\ game.tricksTakenBySeat[1] = 0
    /\ game.roundScores = TeamScores(70, 74)

\* C29: the end of a Spades round leaves each team a bag count from 0 to 9:
\* the bags of the round are added, and for every 10 bags reached 100 points
\* are deducted once and 10 bags taken off; 8 bags and 3 overtricks cost 100
\* once and leave 1 bag.
C29_BagCarry ==
    RoundToTally(game) =>
        \A lastTrickWinner \in Seats : \A team \in 0 .. 1 :
            LET r == SpadesCompleteRound(game, lastTrickWinner)
                reached == game.bags[team] + BagsOfRound(game, team)
            IN /\ r.game.bags[team] \in 0 .. 9
               /\ r.game.bags[team] = reached % 10
               /\ r.game.cumulativeScores[team] =
                     game.cumulativeScores[team] + r.game.roundScores[team]
                     - 100 * (reached \div 10)
               /\ (game.bags[team] = 8 /\ BagsOfRound(game, team) = 3) =>
                     /\ r.game.bags[team] = 1
                     /\ r.game.cumulativeScores[team] =
                           game.cumulativeScores[team] + r.game.roundScores[team] - 100

\* team 0 came with 58 points and 8 bags and made its bid of 4 with 7 tricks:
\* 43 for the round, 100 off, 1 bag
C29_Witness ==
    /\ game.gameType = "spades"
    /\ game.phase = "roundEnd"
    /\ game.teamTricks[0] = 7
    /\ NumericBids(game, 0) = 4
    /\ game.roundScores[0] = 43
    /\ game.cumulativeScores[0] = 1
    /\ game.bags[0] = 1

\* a call that returned a failure left the engine g as it was
FailureKeeps(g, r) == (~r.result.success /\ ~Threw(r)) => r.game = g

\* C30: an engine operation that returns a failure (Hearts submitPass and
\* playCard, King selectContract and playCard, Spades submitBid and playCard)
\* leaves every field of the engine as it was before the call.
C30_FailureFrame ==
    /\ game.gameType = "hearts" =>
          \A seat \in Seats :
              /\ \A cards \in PassInputs(game, seat) :
                    FailureKeeps(game, HeartsSubmitPass(game, seat, cards))
              /\ \A card \in AllCards :
                    FailureKeeps(game, HeartsPlayCard(game, seat, card))
    /\ game.gameType = "king" =>
          \A seat \in Seats :
              /\ \A type \in ContractTypeInputs : \A name \in ContractNameInputs :
                 \A suit \in TrumpSuitInputs :
                    FailureKeeps(game, KingSelectContract(game, seat, type, name, suit))
              /\ \A card \in AllCards :
                    FailureKeeps(game, KingPlayCard(game, seat, card))
    /\ game.gameType = "spades" =>
          \A seat \in Seats :
              /\ \A bid \in BidInputs :
                    FailureKeeps(game, SpadesSubmitBid(game, seat, bid))
              /\ \A card \in AllCards :
                    FailureKeeps(game, SpadesPlayCard(game, seat, card))

\* a Hearts trick under way whose next seat holds a card it may not play: the
\* play is refused as illegal, a play of another seat as out of turn, a pass
\* as out of phase, and the engine is as before
C30_Witness ==
    /\ game.gameType = "hearts"
    /\ game.phase = "playing"
    /\ Len(game.currentTrick) \in 1 .. 3
    /\ \E n \in 1 .. Len(game.hands[game.currentPlayer]) :
          LET r == HeartsPlayCard(game, game.currentPlayer,
                                  game.hands[game.currentPlayer][n])
          IN /\ ~r.result.success
             /\ r.result.error = "Illegal card play"
             /\ r.game = game
    /\ \E seat \in Seats \ {game.currentPlayer} :
          /\ Len(game.hands[seat]) > 0
          /\ LET r == HeartsPlayCard(game, seat, game.hands[seat][1])
             IN /\ ~r.result.success
                /\ r.result.error = "Not your turn"
                /\ r.game = game

\* C16: bids are accepted in the order of the seats 0, 1, 2, 3: in the
\* bidding phase a bid from a seat other than the current bidder is rejected,
\* a seat holds a bid only once it was counted, and the phase is playing only
\* once the four seats have bid.
C16_BidsInSeatOrder ==
    game.gameType = "spades" =>
        /\ game.phase = "bidding" =>
              \A seat \in Seats \ {game.currentPlayer} : \A bid \in BidInputs :
                  ~SpadesSubmitBid(game, seat, bid).result.success
        /\ game.phase = "bidding" =>
              {s \in Seats : game.bids[s] # NullBid} = 0 .. (game.bidsSubmitted - 1)
        /\ game.phase = "playing" =>
              \A s \in Seats : game.bids[s] # NullBid

\* -------------------------------------------------------------- King
\* how often the party's history holds contract c, whatever the case its name
\* was stored in
TimesSelected(g, c) ==
    Cardinality({n \in 1 .. Len(g.contractHistory) :
        LET h == g.contractHistory[n].contract IN
        /\ h.type = c.type
        /\ h.trumpSuit = c.trumpSuit
        /\ h.name = (IF c.type = "penalty" THEN toLowerCase(c.name) ELSE c.name)})

\* C3: over a King party no contract is selected more than twice.
C3_AtMostTwice ==
    game.gameType = "king" =>
        \A c \in PartyContracts : TimesSelected(game, c) <= GlobalCap

\* C4: a game whose contract was selected with the penalty name sonIki ends
\* with -180 for the winner of the last trick but one and -180 for the winner
\* of the last trick, 0 for the others, added to the cumulative scores.
SonIkiExpected(log) == [i \in Seats |->
    0 - (IF log[TricksPerRound - 1] = i THEN PENALTY_VALUES.sonIki ELSE 0)
      - (IF log[TricksPerRound] = i THEN PENALTY_VALUES.sonIki ELSE 0)]

C4_SonIkiScored ==
    (/\ game.gameType = "king"
     /\ game.phase = "gameEnd"
     /\ game.contract.type = "penalty"
     /\ game.contract.name = toLowerCase("sonIki")) =>
        /\ game.gameScores = SonIkiExpected(trickLog)
        /\ game.cumulativeScores = SonIkiExpected(trickLog)

\* a King game in which the fourth card of a trick is to be played
TrickToComplete(g) ==
    g.gameType = "king" /\ g.phase = "playing" /\ Len(g.currentTrick) = 3

\* the cards the seats still hold once seat has played card
HeldAfter(g, seat, card) ==
    UNION {SeqToSet(g.hands[i]) : i \in Seats} \ {card}

\* the cards of the trick that card completes
TrickWith(g, card) == {g.currentTrick[n].card : n \in 1 .. 3} \cup {card}

KingOfHearts == [suit |-> "hearts", rank |-> "K"]

\* the contract's condition for the end of the game at the end of a trick
EndsEarly(contract, trick, held) ==
    \/ contract.name = "rifki" /\ KingOfHearts \in trick
    \/ contract.name = "kupa" /\ \A c \in held : c.suit # "hearts"
    \/ contract.name = "erkek" /\ \A c \in held : c.rank \notin {"K", "J"}
    \/ contract.name = "kiz" /\ \A c \in held : c.rank # "Q"

\* C21: a trick before the last one ends a King game exactly when the
\* contract is rifki and the trick holds the king of hearts, kupa and no heart
\* is left in any hand, erkek and no king or jack is left, kiz and no queen is
\* left; under el, sonIki and a trump the game goes on to the last trick.
C21_EarlyGameEnd ==
    TrickToComplete(game) /\ game.tricksPlayed + 1 < TricksPerRound =>
        \A card \in SeqToSet(game.hands[game.currentPlayer]) :
            LET r == KingPlayCard(game, game.currentPlayer, card) IN
            r.result.success =>
                /\ r.result.gameComplete <=>
                      EndsEarly(game.contract, TrickWith(game, card),
                                HeldAfter(game, game.currentPlayer, card))
                /\ (game.contract.type = "trump"
                      \/ game.contract.name \in {"el", toLowerCase("sonIki")}) =>
                         ~r.result.gameComplete

\* a game of erkek over after its second trick, the last king or jack taken,
\* with a trick still unplayed
C21_Witness ==
    /\ game.gameType = "king"
    /\ game.phase = "gameEnd"
    /\ game.contract.name = "erkek"
    /\ game.tricksPlayed = TricksPerRound - 1
    /\ \E n \in 1 .. 4 : game.lastTrick[n].card.rank \in {"K", "J"}

\* the cards the rules of the contract allow seat to play
Allowed(g, seat) ==
    LET hand == SeqToSet(g.hands[seat])
        leading == g.currentTrick = <<>>
        led == {c \in hand : ~leading /\ c.suit = g.currentTrick[1].card.suit}
        above(c) == \E n \in 1 .. Len(g.currentTrick) :
                       /\ g.currentTrick[n].card.suit = c.suit
                       /\ RANK_VALUES[g.currentTrick[n].card.rank] > RANK_VALUES[c.rank]
        name == g.contract.name
        penaltyCards == CASE name = "erkek" -> {c \in hand : c.rank \in {"K", "J"}}
                          [] name = "kiz" -> {c \in hand : c.rank = "Q"}
                          [] OTHER -> {}
        hearts == {c \in hand : c.suit = "hearts"}
        orAll(S) == IF S # {} THEN S ELSE hand
    IN IF g.contract.type = "trump"
       THEN IF leading
            THEN IF g.trumpBroken THEN hand
                 ELSE orAll({c \in hand : c.suit # g.contract.trumpSuit})
            ELSE orAll(led)
       ELSE IF leading
            THEN IF name \in {"kupa", "rifki"} /\ ~g.heartsBroken
                 THEN orAll(hand \ hearts) ELSE hand
            ELSE IF led # {}
                 THEN IF {c \in led \cap penaltyCards : above(c)} # {}
                      THEN {c \in led \cap penaltyCards : above(c)}
                      ELSE led
                 ELSE IF penaltyCards # {} THEN penaltyCards
                 ELSE IF name = "rifki" /\ KingOfHearts \in hand THEN {KingOfHearts}
                 ELSE IF name \in {"rifki", "kupa"} THEN orAll(hearts)
                 ELSE hand

Captured(g, seat) ==
    UNION {{g.tricksTaken[seat][t][n].card : n \in 1 .. Len(g.tricksTaken[seat][t])} :
              t \in 1 .. Len(g.tricksTaken[seat])}

\* the score of a seat by the table of the contracts
ContractScore(g, seat) ==
    LET captured == Captured(g, seat)
        name == g.contract.name
    IN CASE g.contract.type = "trump" -> 50 * Len(g.tricksTaken[seat])
         [] name = "el" -> 0 - 50 * Len(g.tricksTaken[seat])
         [] name = "kupa" -> 0 - 30 * Cardinality({c \in captured : c.suit = "hearts"})
         [] name = "erkek" -> 0 - 60 * Cardinality({c \in captured : c.rank \in {"K", "J"}})
         [] name = "kiz" -> 0 - 100 * Cardinality({c \in captured : c.rank = "Q"})
         [] name = "rifki" -> IF KingOfHearts \in captured THEN 0 - 320 ELSE 0

\* C23: the trick that ends a King game leaves each seat the game score of
\* the contract: el -50 a trick taken, kupa -30 a heart captured, erkek -60 a
\* king or jack captured, kiz -100 a queen captured, rifki -320 for the seat
\* that captured the king of hearts and 0 for the others, a trump +50 a trick
\* taken; and the game scores are added to the cumulative scores.
C23_GameScores ==
    TrickToComplete(game) =>
        \A card \in SeqToSet(game.hands[game.currentPlayer]) :
            LET r == KingPlayCard(game, game.currentPlayer, card) IN
            (r.result.success /\ r.result.gameComplete) =>
                /\ game.contract.name # toLowerCase("sonIki") =>
                      \A seat \in Seats :
                          r.game.gameScores[seat] = ContractScore(r.game, seat)
                /\ \A seat \in Seats :
                      r.game.cumulativeScores[seat] =
                          game.cumulativeScores[seat] + r.game.gameScores[seat]

\* a game of erkek over: a seat that captured three kings or jacks has -180,
\* in the game and in the party
C23_Witness ==
    /\ game.gameType = "king"
    /\ game.phase = "gameEnd"
    /\ game.contract.name = "erkek"
    /\ \E seat \in Seats :
          /\ Cardinality({c \in Captured(game, seat) : c.rank \in {"K", "J"}}) = 3
          /\ game.gameScores[seat] = 0 - 180
          /\ game.cumulativeScores[seat] = 0 - 180

\* the cards of the deal: held, on the table or taken
Dealt(g) ==
    UNION {SeqToSet(g.hands[i]) \cup Captured(g, i) : i \in Seats}
    \cup {g.currentTrick[n].card : n \in 1 .. Len(g.currentTrick)}

\* the total of a game by the table of the contracts, for the cards dealt: a
\* trick, heart, king or jack, queen at its price, the king of hearts and the
\* last two tricks at theirs
ContractTotal(contract, dealt) ==
    CASE contract.type = "trump" -> 50 * TricksPerRound
      [] contract.name = "el" -> 0 - 50 * TricksPerRound
      [] contract.name = "kupa" -> 0 - 30 * Cardinality({c \in dealt : c.suit = "hearts"})
      [] contract.name = "erkek" ->
            0 - 60 * Cardinality({c \in dealt : c.rank \in {"K", "J"}})
      [] contract.name = "kiz" -> 0 - 100 * Cardinality({c \in dealt : c.rank = "Q"})
      [] contract.name = "rifki" -> 0 - 320
      [] contract.name = toLowerCase("sonIki") -> 0 - 360

\* C24: at the end of every King game, early or not, the four game scores
\* sum to the contract's total (with the full deck el -650, kupa -390, erkek
\* -480, kiz -400, rifki -320, sonIki -360, a trump +650).
C24_GameTotal ==
    TrickToComplete(game) =>
        \A card \in SeqToSet(game.hands[game.currentPlayer]) :
            LET r == KingPlayCard(game, game.currentPlayer, card) IN
            (r.result.success /\ r.result.gameComplete) =>
                r.game.gameScores[0] + r.game.gameScores[1] + r.game.gameScores[2]
                    + r.game.gameScores[3] = ContractTotal(game.contract, Dealt(game))

\* how many contracts of a type the party's history holds for a selector
SelectedBy(g, seat, type) ==
    Cardinality({n \in 1 .. Len(g.contractHistory) :
        /\ g.contractHistory[n].selector = seat
        /\ g.contractHistory[n].contract.type = type})

\* C19: at all times in a King party each seat has selected at most 3 penalty
\* contracts and at most 2 trump contracts, and a selector that has selected 3
\* penalties has every further penalty rejected, one that has selected 2
\* trumps every further trump.
C19_SelectorQuotas ==
    game.gameType = "king" =>
        \A seat \in Seats :
            /\ SelectedBy(game, seat, "penalty") <= PenaltyQuota
            /\ SelectedBy(game, seat, "trump") <= TrumpQuota
            /\ \A name \in ContractNameInputs : \A suit \in TrumpSuitInputs :
                  /\ SelectedBy(game, seat, "penalty") >= PenaltyQuota =>
                        ~KingSelectContract(game, seat, "penalty", name, suit).result.success
                  /\ SelectedBy(game, seat, "trump") >= TrumpQuota =>
                        ~KingSelectContract(game, seat, "trump", name, suit).result.success

\* the selector is to select in its fifth game, has used all its penalties and
\* one trump, and asks for a penalty the party has not used at all: the quota
\* alone rejects it, while a trump is still accepted
C19_Witness ==
    /\ game.gameType = "king"
    /\ game.phase = "selecting"
    /\ game.gameNumber = 17
    /\ SelectedBy(game, game.selectorSeat, "penalty") = PenaltyQuota
    /\ SelectedBy(game, game.selectorSeat, "trump") = TrumpQuota - 1
    /\ game.globalContractUsage["kupa"] = 0
    /\ ~KingSelectContract(game, game.selectorSeat, "penalty", "kupa", UNDEFINED).result.success
    /\ KingSelectContract(game, game.selectorSeat, "trump", UNDEFINED, "hearts").result.success

\* the contract a selectContract(type, name, suit) asks for, the name in the
\* case the engine stores
Requested(type, name, suit) ==
    IF type = "penalty"
    THEN [type |-> "penalty", name |-> toLowerCase(name), trumpSuit |-> UNDEFINED]
    ELSE [type |-> "trump", name |-> UNDEFINED, trumpSuit |-> suit]

C11_OneContractPerGame ==
    game.gameType = "king" =>
        /\ game.gameNumber <= PartyGames
        /\ game.contract # NoContract => Len(game.contractHistory) = game.gameNumber

\* ------------------------------------------------------------ the controller
TimerPending(ts, kinds) == \E n \in 1 .. Len(ts) : ts[n].kind \in kinds

Count(events, e) == Len(SelectSeq(events, LAMBDA x : x = e))

\* C12: a Hearts round is dealt only from phase roundEnd of a round that did
\* not end the game: a nextRound event during passing or playing, or after a
\* round that took a cumulative score to the ending score, deals no cards and
\* leaves the round number and the phase as they were.
C12_NextRoundOnlyAfterRound ==
    ( /\ game.gameType = "hearts"
      /\ game.phase \in {"passing", "playing"} \/ GameOver(game) ) =>
        \A k \in ShuffleIds :
            LET h == OnNextRound(game, timers, k) IN
            /\ h.game.roundNumber = game.roundNumber
            /\ h.game.phase = game.phase
            /\ h.game.hands = game.hands

\* C13: a rematch event replaces the engine only when the game is over and the
\* four seats have voted yes, and the new engine has the game type and the
\* options of the old one; while a game is in progress, four yes votes leave
\* the engine as it is.
C13_RematchOnlyAfterGameEnd ==
    /\ \A seat \in Seats : \A vote \in BOOLEAN : \A k \in ShuffleIds :
          LET h == OnRematch(game, timers, rematchVotes, seat, vote, k) IN
          h.outcome = "rematch" =>
              /\ GameOver(game)
              /\ vote
              /\ \A s \in Seats \ {seat} : s \in DOMAIN rematchVotes /\ rematchVotes[s]
              /\ h.game.gameType = game.gameType
              /\ game.gameType = "hearts" => h.game.endingScore = game.endingScore
    /\ ~GameOver(game) =>
          \A k \in ShuffleIds : VoteFrom(game, timers, rematchVotes, 0, k).game = game

\* C7: while a completed trick's trickEnd, or the updateGame that follows it,
\* is still to be emitted, the playCard handler accepts no card from any seat.
C7_NoPlayDuringAnimation ==
    AnimationInFlight(timers) =>
        \A seat \in Seats : \A card \in AllCards :
            OnPlayCard(game, timers, seat, card).outcome # "accepted"

\* C8: a playCard or selectContract event that is not accepted (wrong seat,
\* illegal card, exhausted quota, missing card, penalty without contractName)
\* is answered by exactly one error, leaves the engine as it was and leaves the
\* turn timer (phase playing) or the select timer (phase selecting) armed.
C8_RejectionRepliedAndRearmed ==
    /\ \A seat \in Seats : \A card \in AllCards \cup {UndefinedCard} :
          LET h == OnPlayCard(game, timers, seat, card) IN
          h.outcome # "accepted" =>
              /\ Count(h.events, "error") = 1
              /\ h.game = game
              /\ game.phase = "playing" => TimerPending(h.timers, {"turn"})
    /\ game.gameType = "king" =>
          \A seat \in Seats : \A c \in ClientContracts :
              LET h == OnSelectContract(game, timers, seat, c[1], c[2], c[3]) IN
              h.outcome # "accepted" =>
                  /\ Count(h.events, "error") = 1
                  /\ h.game = game
                  /\ game.phase = "selecting" => TimerPending(h.timers, {"select"})

\* C9: when the select timer expires in phase selecting, whatever the random
\* draw, a contract is selected and the engine is in phase playing; the
\* callback never leaves the table in selecting.
C9_SelectTimerSelects ==
    \A n \in 1 .. Len(timers) :
        (timers[n].kind = "select" /\ Due(timers, n) /\ game.phase = "selecting") =>
            \A contractName \in SeqToSet(PenaltyNames) :
            \A trumpSuit \in SeqToSet(TrumpSuits) :
                LET h == SelectTimerCallback(game, Elapse(timers, n), contractName,
                                             trumpSuit)
                IN /\ h.outcome = "selected"
                   /\ h.game.phase = "playing"
                   /\ h.game.contract # NoContract

\* C10: when the turn timer of the seat to play expires, exactly one card is
\* auto-played, the lowest-ranked of the seat's legal cards, the engine accepts
\* it, and the next turn timer is armed or the trick's end is scheduled.
C10_TurnTimerPlaysLowest ==
    \A n \in 1 .. Len(timers) :
        ( /\ timers[n].kind = "turn"
          /\ Due(timers, n)
          /\ game.phase = "playing"
          /\ game.currentPlayer = timers[n].seat ) =>
            LET seat == timers[n].seat
                legal == GetLegalCards(game, seat)
                h == TurnTimerCallback(game, Elapse(timers, n), seat)
            IN /\ h.outcome = "played"
               /\ Count(h.events, "autoPlay") = 1
               /\ Count(h.events, "cardPlayed") = 1
               /\ \/ Len(h.game.currentTrick) = Len(game.currentTrick) + 1
                  \/ Len(h.won) = 1
               /\ \E c \in SeqToSet(legal) :
                     /\ ~Includes(h.game.hands[seat], c)
                     /\ \A d \in SeqToSet(legal) :
                           RANK_VALUES[c.rank] <= RANK_VALUES[d.rank]
               /\ TimerPending(h.timers, {"turn", "trickEnd"})

PhaseTimer(g) ==
    CASE g.phase = "passing" -> "pass"
      [] g.phase = "selecting" -> "select"
      [] g.phase = "playing" -> "turn"
      [] OTHER -> "none"

\* C15: after a takeover in any engine phase the joiner is sent the state the
\* seat would have had: the seat's hand, the phase and the current player, the
\* contract once a King contract is selected, and the time that remains to
\* the phase's running timer.
C15_TakeoverSnapshot ==
    \A t \in StartedTables : \A socketId \in Joiners :
        Gone(t) # {} =>
            LET h == OnJoinTable(t, game, timers, socketId, "Ada", game)
                seat == takeOverSeat(t, socketId).seat
            IN /\ h.outcome = "takeover"
               /\ "hand" \in h.sent.carries
               /\ h.sent.hand = game.hands[seat]
               /\ game.phase # "selecting" =>
                     {"phase", "currentPlayer"} \subseteq h.sent.carries
               /\ (game.gameType = "king" /\ game.contract # NoContract) =>
                     "contract" \in h.sent.carries
               /\ Deadline(timers, PhaseTimer(game)) # NoDeadline =>
                     /\ "timeoutAt" \in h.sent.carries
                     /\ h.sent.timeoutAt = Deadline(timers, PhaseTimer(game))

\* ------------------------------------------------------------ the registry
\* C6: every table a callback removed from the registry had no connected
\* seated player at that moment, and no cleanup stays scheduled for a table
\* that a connected player is seated at.
C6_OnlyAbandonedTablesDestroyed ==
    /\ \A n \in 1 .. Len(destroyed) : ~destroyed[n].occupied
    /\ \A id \in DOMAIN tables :
          ~AllGone(tables[id]) =>
              \A n \in 1 .. Len(cleanups) :
                  cleanups[n].handle = NoTimer
                  \/ cleanups[n].handle # tables[id].cleanupTimer

\* ------------------------------------------------------------ the timers
\* the pending callbacks of kind kind
Pending(ts, kind) == Len(SelectSeq(ts, LAMBDA t : t.kind = kind))

\* the cleanup callback that table t holds in cleanupTimer is still to run
CleanupPending(t, q) ==
    /\ t.cleanupTimer # NoTimer
    /\ \E n \in 1 .. Len(q) : q[n].handle = t.cleanupTimer

\* a leaveTable or a disconnect of connection s would arm the cleanup timer of
\* the table its closure holds
ArmsCleanup(s) ==
    /\ sockets[s].connected
    /\ sockets[s].currentTableId # NoTable
    /\ sockets[s].currentTableId \in DOMAIN tables
    /\ LET removed == removePlayer(tables[sockets[s].currentTableId], s) IN
       removed.player # NoPlayer /\ AllGone(removed.table)

\* C31: a table has at most one pending timer of each kind (turn and its
\* warning, pass, contract select, cleanup): whatever arms a timer finds no
\* earlier instance of that kind still pending, or cancels it first.
C31_OneTimerPerKind ==
    /\ \A kind \in {"turn", "turnWarning", "pass", "select"} : Pending(timers, kind) <= 1
    /\ \A s \in SocketIds :
          ArmsCleanup(s) => ~CleanupPending(tables[sockets[s].currentTableId], cleanups)

\* a turn, warning, pass or select timer is pending
PhaseTimerPending(ts) == TimerPending(ts, {"turn", "turnWarning", "pass", "select"})

\* C32: a leaveTable, a disconnect and the removal of the table by a cleanup
\* callback or by the sweep each leave the table without a pending turn, pass
\* or select timer, so that none fires afterwards.
C32_DepartureCancelsTimers ==
    [][ ( \/ LeaveTableEvent
          \/ DisconnectEvent
          \/ (CleanupTimerFires /\ tables' # tables)
          \/ (SweepFires /\ tables' # tables) )
        => ~PhaseTimerPending(timers') ]_vars

\* the cards a seat passes when the pass timer runs with the draws pick: the
\* pass it submitted, or the cards of its hand at the drawn positions
PassedAtExpiry(g, seat, pick) ==
    IF seat \in DOMAIN g.passes THEN SeqToSet(g.passes[seat])
    ELSE {g.hands[seat][pick[seat][i]] : i \in 1 .. 3}

\* C33: when the pass timer expires in phase passing, each seat that has not
\* passed passes three different cards of its own hand, each seat that has
\* passed passes the cards it submitted, the exchange is carried out (every
\* seat gives its cards up and holds those of its giver) and the phase
\* becomes playing.
C33_PassTimerPasses ==
    (game.gameType = "hearts" /\ game.phase = "passing") =>
        \A n \in 1 .. Len(timers) : \A pick \in PassPicks(game) :
            timers[n].kind = "pass" =>
                LET h == PassTimerCallback(game, Elapse(timers, n), pick) IN
                /\ h.game.phase = "playing"
                /\ \A seat \in Seats :
                      /\ Cardinality(PassedAtExpiry(game, seat, pick)) = 3
                      /\ PassedAtExpiry(game, seat, pick) \subseteq SeqToSet(game.hands[seat])
                      /\ SeqToSet(h.game.hands[ReceiverInRound(seat, game.roundNumber)]) =
                            (SeqToSet(game.hands[ReceiverInRound(seat, game.roundNumber)])
                             \ PassedAtExpiry(game,
                                              ReceiverInRound(seat, game.roundNumber), pick))
                            \cup PassedAtExpiry(game, seat, pick)

\* seats 0 and 2 have passed and the timer expires: seats 1 and 3 are passed
\* for, the phase becomes playing and seat 0's cards are with its receiver
C33_Witness ==
    /\ game.gameType = "hearts"
    /\ game.phase = "passing"
    /\ DOMAIN game.passes = {0, 2}
    /\ \E n \in 1 .. Len(timers) : \E pick \in PassPicks(game) :
          /\ timers[n].kind = "pass"
          /\ LET h == PassTimerCallback(game, Elapse(timers, n), pick) IN
             /\ h.outcome = "passed"
             /\ h.game.phase = "playing"
             /\ SeqToSet(game.passes[0])
                   \subseteq SeqToSet(h.game.hands[ReceiverInRound(0, game.roundNumber)])
             /\ h.game.hands[1] # game.hands[1]

\* ------------------------------------------------------------ the cleanup
\* no seat of table id is held by a connected player
Abandoned(id) ==
    /\ id \in DOMAIN tables
    /\ \A n \in 1 .. Len(tables[id].players) : ~tables[id].players[n].connected

\* C34: a table whose seats are all empty or disconnected is in the end
\* removed from the registry, unless somebody joins it or takes a seat over
\* before.
C34_AbandonedTableDestroyed ==
    \A id \in TableIds : Abandoned(id) ~> ~Abandoned(id)

\* the sweep has removed a table whose seats were all empty or disconnected,
\* before a cleanup callback that was pending has run
C34_Witness ==
    /\ Len(destroyed) > 0
    /\ destroyed[1].by = "sweep"
    /\ ~destroyed[1].occupied
    /\ destroyed[1].id \notin DOMAIN tables
    /\ Len(cleanups) > 1

\* ------------------------------------------------------------ the broadcasts
\* the events that carry a seat's own hand to each seated player
PlayerSnapshots == {"updateGame", "startGame", "contractSelectionStart", "cardsReceived"}

\* a handler or callback that changed the engine sent one snapshot to the
\* players and one to the spectators
OneSnapshotEach(g, h) ==
    h.game # g =>
        /\ Len(SelectSeq(h.events, LAMBDA e : e \in PlayerSnapshots)) = 1
        /\ Count(h.events, "spectatorUpdate") = 1

\* C35: whatever changes the engine (the pass that completes the exchange, a
\* contract selection, a card played by a client or by a timer, the trick it
\* completes, a new round or game) sends one snapshot with the own hand to
\* each seated player and one spectator projection to each spectator.
C35_OneSnapshotPerMutation ==
    /\ \A seat \in Seats : \A card \in ClientCards(game) :
          OneSnapshotEach(game, OnPlayCard(game, timers, seat, card))
    /\ game.gameType = "king" =>
          \A seat \in Seats : \A c \in ClientContracts :
              OneSnapshotEach(game, OnSelectContract(game, timers, seat, c[1], c[2], c[3]))
    /\ game.gameType = "hearts" =>
          \A seat \in Seats : \A cards \in ClientPasses(game, seat) :
              LET h == OnSubmitPass(game, timers, seat, cards) IN
              h.game.phase # game.phase => OneSnapshotEach(game, h)
    /\ \A n \in 1 .. Len(timers) :
          /\ timers[n].kind = "turn" =>
                OneSnapshotEach(game, TurnTimerCallback(game, Elapse(timers, n),
                                                        timers[n].seat))
          /\ timers[n].kind = "select" =>
                \A contractName \in DrawnPenalties : \A trumpSuit \in DrawnSuits :
                    OneSnapshotEach(game, SelectTimerCallback(game, Elapse(timers, n),
                                                              contractName, trumpSuit))
          /\ timers[n].kind = "autoTwo" =>
                OneSnapshotEach(game, autoPlayTwoOfClubs(game, Elapse(timers, n)))
    /\ (game.phase \in {"roundEnd", "gameEnd"} /\ MoreDeals(game)) =>
          \A k \in ShuffleIds :
              OneSnapshotEach(game, OnNextRound(game, timers, k))

\* ------------------------------------------------------------ the spectators
\* other cards in the hands of engine g: none, those of the next seat, the
\* hand without its first card, a king of hearts for everyone
OtherHands(g) ==
    { EmptyHands,
      [seat \in Seats |-> g.hands[(seat + 1) % 4]],
      [seat \in Seats |-> IF Len(g.hands[seat]) > 0 THEN Tail(g.hands[seat]) ELSE <<>>],
      [seat \in Seats |-> <<Card("hearts", "K")>>] }

C37_SomethingSelectable ==
    (game.gameType = "king" /\ game.phase = "selecting"
        /\ game.gameNumber \in 1 .. PartyGames)
    => Selectable(game) # {}

\* the selector of game 20 has used its three penalties, so that only trumps
\* are listed, two of the trump suits were selected twice and are refused,
\* and another one is accepted
C37_Witness ==
    /\ game.gameType = "king"
    /\ game.phase = "selecting"
    /\ game.gameNumber = PartyGames
    /\ Len(game.contractHistory) = PartyGames - 1
    /\ game.contractsUsed[game.selectorSeat].penalties = PenaltyQuota
    /\ Cardinality({n \in 1 .. Len(TrumpSuits) :
            ~KingSelectContract(game, game.selectorSeat, "trump", UNDEFINED,
                                TrumpSuits[n]).result.success}) >= 2
    /\ Selectable(game) # {}

\* ------------------------------------------------------------- trickEnd
\* what a trickEnd for a completed trick is to report: the seat that won it,
\* the points of its cards (Hearts; a King trick has none) and its four plays
ReportOf(g, trick, winner) ==
    [winner |-> winner,
     points |-> IF g.gameType = "hearts" THEN trickPoints(trick) ELSE 0,
     lastTrick |-> trick]

\* C38: every trickEnd event reports the winner, the points and the four
\* cards of the trick whose completion scheduled it, whatever was played or
\* dealt between the completion and the emission: a pending trickEnd callback
\* that is the next to run emits that report.
C38_TrickEndOfItsTrick ==
    \A n \in 1 .. Len(timers) :
        (timers[n].kind = "trickEnd" /\ Due(timers, n)) =>
            TrickEndEvent(game, timers[n].result)
                = ReportOf(game, timers[n].result.trick, timers[n].result.winner)

\* --------------------------------------------------------- a fresh id
\* C39: createTable always registers the new table under an id the registry
\* does not hold: no id generateTableId may return to a connected client is
\* the id of a table in the map.
C39_FreshTableId ==
    (\E s \in SocketIds : sockets[s].connected) =>
        \A tableId \in generateTableId(tables) : tableId \notin DOMAIN tables

\* ------------------------------------------------- a seat after disconnect
\* socket s holds a seat of table t as a connected player
Seated(t, s) ==
    \E n \in 1 .. Len(t.players) : t.players[n].id = s /\ t.players[n].connected

\* C40: when a socket that holds a seat disconnects, the seat is marked
\* disconnected or freed, whatever spectate, leave or join events the socket
\* sent before: after the disconnect handler no table holds the socket as a
\* connected player.
C40_DisconnectFreesSeat ==
    [][ \A s \in SocketIds :
          (DisconnectEvent /\ sockets[s].connected /\ ~sockets'[s].connected
              /\ \E id \in DOMAIN tables : Seated(tables[id], s))
          => \A id \in DOMAIN tables' : ~Seated(tables'[id], s) ]_vars

===============================================================================
